---- MODULE Spec2Model ----
(***************************************************************************)
(* A model of the gaminator rules engine: the expression evaluator with    *)
(* its compiled-expression cache and its shared cap/bonus vars binding,    *)
(* the equipment aggregator, the character factory and the character       *)
(* actions that end in recompute.                                          *)
(*                                                                         *)
(* Numbers are JavaScript numbers restricted to the integers plus the      *)
(* values +Infinity, -Infinity, NaN and undefined, and a marker for a      *)
(* raised exception.  Formula texts are sequences of chunks: a chunk " "   *)
(* is white space, any other chunk is a piece of expression source.        *)
(***************************************************************************)
EXTENDS Integers, Sequences, FiniteSets, TLC

VARIABLES
    pk,         \* which pack the evaluator and the character were built from
    opts,       \* which options createCharacter was called with
    character,  \* the Character value (level, attr, res, prof, derived, inventory, slots)
    cache,      \* TinyLRU.map of the evaluator module: entries oldest first
    varsRef,    \* the evaluator module's _varsRef binding
    last,       \* the last character action: its name, whether it returned early,
                \* and the res map it was called on
    ev,         \* the last direct evaluate call: its input and result
    call        \* the last direct call of lookup or summarizeEquipmentVars:
                \* its arguments and what it returned

vars == <<pk, opts, character, cache, varsRef, last, ev, call>>

----------------------------------------------------------------------------
(* Bounds of the model *)

\* capacity used for the compiled-expression cache in the model
CacheCapacity == 2
\* longest inventory the model builds
MaxItems == 2
\* highest level the level actions are asked for
MaxLevel == 2

----------------------------------------------------------------------------
(* JavaScript numbers *)

Num(n) == [t |-> "num", n |-> n]
PosInf == [t |-> "inf", n |-> 1]
NegInf == [t |-> "inf", n |-> -1]
NaN == [t |-> "nan", n |-> 0]
Undefined == [t |-> "undefined", n |-> 0]
Thrown == [t |-> "throw", n |-> 0]

\* Number(v)
ToNumber(v) == IF v.t = "undefined" THEN NaN ELSE v

\* Number.isFinite(v)
IsFinite(v) == v.t = "num"

\* Number(v) || 0
OrZero(v) == IF ToNumber(v).t = "nan" THEN Num(0) ELSE ToNumber(v)

SignOf(v) == IF v.n > 0 THEN 1 ELSE IF v.n < 0 THEN -1 ELSE 0

Inf(sign) == IF sign > 0 THEN PosInf ELSE NegInf

JsNeg(a) ==
    LET x == ToNumber(a) IN
    IF x.t = "nan" THEN NaN ELSE [x EXCEPT !.n = -x.n]

JsAdd(a, b) ==
    LET x == ToNumber(a)
        y == ToNumber(b)
    IN  IF x.t = "nan" \/ y.t = "nan" THEN NaN
        ELSE IF x.t = "num" /\ y.t = "num" THEN Num(x.n + y.n)
        ELSE IF x.t = "inf" /\ y.t = "inf" THEN (IF x.n = y.n THEN x ELSE NaN)
        ELSE IF x.t = "inf" THEN x ELSE y

JsSub(a, b) == JsAdd(a, JsNeg(b))

JsMul(a, b) ==
    LET x == ToNumber(a)
        y == ToNumber(b)
    IN  IF x.t = "nan" \/ y.t = "nan" THEN NaN
        ELSE IF x.t = "num" /\ y.t = "num" THEN Num(x.n * y.n)
        ELSE IF SignOf(x) = 0 \/ SignOf(y) = 0 THEN NaN
        ELSE Inf(SignOf(x) * SignOf(y))

\* a / b; a finite quotient is modelled only where it is an integer
JsDiv(a, b) ==
    LET x == ToNumber(a)
        y == ToNumber(b)
    IN  CASE x.t = "nan" \/ y.t = "nan" -> NaN
          [] x.t = "inf" /\ y.t = "inf" -> NaN
          [] x.t = "inf" /\ y.t = "num" -> Inf(x.n * (IF y.n < 0 THEN -1 ELSE 1))
          [] x.t = "num" /\ y.t = "inf" -> Num(0)
          [] x.t = "num" /\ y.t = "num" /\ y.n = 0 ->
                IF x.n = 0 THEN NaN ELSE Inf(SignOf(x))
          [] x.t = "num" /\ y.t = "num" /\ y.n > 0 /\ x.n % y.n = 0 ->
                Num(x.n \div y.n)
          [] x.t = "num" /\ y.t = "num" /\ y.n < 0 /\ x.n % (-y.n) = 0 ->
                Num(-(x.n \div (-y.n)))

\* a <= b on numbers that are not NaN
JsLe(a, b) ==
    CASE a.t = "num" /\ b.t = "num" -> a.n <= b.n
      [] a.t = "inf" /\ b.t = "inf" -> a.n <= b.n
      [] a.t = "inf" -> a.n < 0
      [] b.t = "inf" -> b.n > 0

\* Math.min(a, b), Math.max(a, b)
JsMin(a, b) ==
    LET x == ToNumber(a)
        y == ToNumber(b)
    IN  IF x.t = "nan" \/ y.t = "nan" THEN NaN
        ELSE IF JsLe(x, y) THEN x ELSE y

JsMax(a, b) ==
    LET x == ToNumber(a)
        y == ToNumber(b)
    IN  IF x.t = "nan" \/ y.t = "nan" THEN NaN
        ELSE IF JsLe(x, y) THEN y ELSE x

IntMin(a, b) == IF a <= b THEN a ELSE b
IntMax(a, b) == IF a >= b THEN a ELSE b

----------------------------------------------------------------------------
(* Evaluation contexts and the vars binding *)

\* the cap and bonus keys formulas, items and tag rules use
VarKeys == {"ac.dex", "ac.shield", "nope"}

NoKeys == [k \in VarKeys |-> Undefined]

\* a vars object with neither base_hp nor caps nor bonuses: {}
NoVars == [base_hp |-> Undefined, caps |-> NoKeys, bonuses |-> NoKeys]

\* _varsRef = null
NullRef == [bound |-> FALSE, v |-> NoVars]

\* _varsRef = scope.vars
Bind(v) == [bound |-> TRUE, v |-> v]

\* vars: { base_hp: 0, ...(ctx.vars ?? {}) }
ScopeVars(ctxVars) ==
    [ctxVars EXCEPT !.base_hp = IF @.t = "undefined" THEN Num(0) ELSE @]

MakeScope(ctx) ==
    [id |-> ctx.id, level |-> ctx.level, attr |-> ctx.attr, res |-> ctx.res,
     prof |-> ctx.prof, derived |-> ctx.derived, vars |-> ScopeVars(ctx.vars)]

\* the evaluator module's state as one value, with the log of cap/bonus reads
\* and the log of the keys compile found in or put into the cache
Module(c, r) == [cache |-> c, varsRef |-> r, reads |-> <<>>, uses |-> <<>>]

----------------------------------------------------------------------------
(* Builtin functions of createPackEvaluator *)

\* mod(score)
mod(score) ==
    IF score.t = "undefined" THEN Num(0)
    ELSE IF score.t = "num" THEN Num((score.n - 10) \div 2)
    ELSE score

\* a faulty cap_value, which never finds a cap
cap_valueNone(key, ref) == PosInf

\* cap_value(key), reading the binding ref
cap_value(key, ref) ==
    LET v == IF ref.bound THEN ref.v.caps[key] ELSE Undefined IN
    IF v.t = "undefined" THEN PosInf
    ELSE IF v = PosInf THEN PosInf
    ELSE IF IsFinite(ToNumber(v)) THEN ToNumber(v) ELSE PosInf

\* cap(value, key)
cap(value, key, ref) == JsMin(OrZero(value), cap_value(key, ref))

\* bonus(key)
bonus(key, ref) ==
    LET v == IF ref.bound THEN ref.v.bonuses[key] ELSE Undefined IN
    IF IsFinite(ToNumber(v)) THEN ToNumber(v) ELSE Num(0)

\* the log entry of one cap/cap_value/bonus read made while evaluating scope
LogRead(m, scope, fn, key) ==
    [m EXCEPT !.reads = Append(@, [by |-> scope.id, fn |-> fn, key |-> key,
                                   own |-> m.varsRef = Bind(scope.vars)])]

----------------------------------------------------------------------------
(* Expressions: the syntax trees the parser produces *)

Lit(n) == [op |-> "lit", n |-> n]
Level == [op |-> "level"]
Attr(id) == [op |-> "attr", id |-> id]
Res(id, field) == [op |-> "res", id |-> id, field |-> field]
Derived(id) == [op |-> "derived", id |-> id]
VarsBaseHp == [op |-> "base_hp"]
Ident(name) == [op |-> "ident", name |-> name]
Add(a, b) == [op |-> "add", a |-> a, b |-> b]
Sub(a, b) == [op |-> "sub", a |-> a, b |-> b]
Mul(a, b) == [op |-> "mul", a |-> a, b |-> b]
Div(a, b) == [op |-> "div", a |-> a, b |-> b]
ModOf(a) == [op |-> "mod", a |-> a]
CapOf(a, key) == [op |-> "cap", a |-> a, key |-> key]
CapValueOf(key) == [op |-> "cap_value", key |-> key]
BonusOf(key) == [op |-> "bonus", key |-> key]
\* vars.inner(), inner being a host function that calls evaluate(text, ctx)
Hook(text, ctx) == [op |-> "hook", text |-> text, ctx |-> ctx]

\* the expression each parsable source chunk stands for
Program(src) ==
    CASE src = "0" -> Lit(0)
      [] src = "level" -> Level
      [] src = "mod(attr.dex)" -> ModOf(Attr("dex"))
      [] src = "10 + cap(dex_mod, 'ac.dex') + bonus('ac.shield')" ->
            Add(Add(Lit(10), CapOf(Ident("dex_mod"), "ac.dex")), BonusOf("ac.shield"))
      [] src = "10 + cap(derived.dex_mod, 'ac.dex') + bonus('ac.shield')" ->
            Add(Add(Lit(10), CapOf(Derived("dex_mod"), "ac.dex")), BonusOf("ac.shield"))
      [] src = "mod(attr.con)" -> ModOf(Attr("con"))
      [] src = "attr.con" -> Attr("con")
      [] src = "derived.hp_max" -> Derived("hp_max")
      [] src = "derived.lvl + 1" -> Add(Derived("lvl"), Lit(1))
      [] src = "res.hp.current" -> Res("hp", "current")
      [] src = "res.a.max + res.a.current" -> Add(Res("a", "max"), Res("a", "current"))
      [] src = "res.me.max + 1" -> Add(Res("me", "max"), Lit(1))
      [] src = "res.late.max + 1" -> Add(Res("late", "max"), Lit(1))
      [] src = "res.hd.max + mod(attr.con)" -> Add(Res("hd", "max"), ModOf(Attr("con")))
      [] src = "vars.base_hp + level" -> Add(VarsBaseHp, Level)
      [] src = "cap(5, 'ac.dex') + bonus('ac.shield')" ->
            Add(CapOf(Lit(5), "ac.dex"), BonusOf("ac.shield"))
      [] src = "cap(7, 'nope') + bonus('nope')" ->
            Add(CapOf(Lit(7), "nope"), BonusOf("nope"))
      [] src = "mod(attr.str) + mod(attr.dex)" ->
            Add(ModOf(Attr("str")), ModOf(Attr("dex")))
      [] src = "1 / 0" -> Div(Lit(1), Lit(0))
      [] src = "cap_value('ac.dex')" -> CapValueOf("ac.dex")
      [] src = "attr.str * 15" -> Mul(Attr("str"), Lit(15))
      [] src = "bonus('ac.shield') + res.hp.max" ->
            Add(BonusOf("ac.shield"), Res("hp", "max"))
      [] src = "bonus('ac.shield') + vars.inner() + bonus('ac.shield')" ->
            Add(Add(BonusOf("ac.shield"),
                    Hook(<<"cap(5, 'ac.dex') + bonus('ac.shield')">>, 2)),
                BonusOf("ac.shield"))

Parsable ==
    {"0", "level", "mod(attr.dex)",
     "10 + cap(dex_mod, 'ac.dex') + bonus('ac.shield')",
     "10 + cap(derived.dex_mod, 'ac.dex') + bonus('ac.shield')",
     "mod(attr.con)", "attr.con", "derived.hp_max", "derived.lvl + 1", "res.hp.current",
     "res.a.max + res.a.current", "res.me.max + 1", "res.late.max + 1",
     "res.hd.max + mod(attr.con)", "vars.base_hp + level",
     "cap(5, 'ac.dex') + bonus('ac.shield')", "cap(7, 'nope') + bonus('nope')",
     "mod(attr.str) + mod(attr.dex)", "1 / 0", "cap_value('ac.dex')",
     "attr.str * 15", "bonus('ac.shield') + res.hp.max",
     "bonus('ac.shield') + vars.inner() + bonus('ac.shield')"}

\* parser.parse(key): a compiled expression, or a raised parse error
Parse(key) ==
    IF Len(key) = 1 /\ key[1] \in Parsable
    THEN [ok |-> TRUE, compiled |-> key[1]]
    ELSE [ok |-> FALSE, compiled |-> ""]

\* expr.trim()
RECURSIVE Trim(_)
Trim(text) ==
    IF text = <<>> THEN text
    ELSE IF Head(text) = " " THEN Trim(Tail(text))
    ELSE IF text[Len(text)] = " " THEN Trim(SubSeq(text, 1, Len(text) - 1))
    ELSE text

----------------------------------------------------------------------------
(* TinyLRU: a Map in insertion order, the oldest entry first *)

Has(map, k) == \E i \in 1..Len(map) : map[i].k = k

IndexOf(map, k) == CHOOSE i \in 1..Len(map) : map[i].k = k

Delete(map, k) ==
    IF Has(map, k)
    THEN SubSeq(map, 1, IndexOf(map, k) - 1) \o SubSeq(map, IndexOf(map, k) + 1, Len(map))
    ELSE map

\* a faulty TinyLRU.get, which leaves a hit where it is in the Map
TinyLRU_getInPlace(map, k) ==
    IF Has(map, k)
    THEN [hit |-> TRUE, v |-> map[IndexOf(map, k)].v, map |-> map]
    ELSE [hit |-> FALSE, v |-> "", map |-> map]

\* TinyLRU.get: a hit is deleted and set again, which makes it the newest
TinyLRU_get(map, k) ==
    IF Has(map, k)
    THEN [hit |-> TRUE, v |-> map[IndexOf(map, k)].v,
          map |-> Append(Delete(map, k), map[IndexOf(map, k)])]
    ELSE [hit |-> FALSE, v |-> "", map |-> map]

\* a faulty TinyLRU.set, which stores the compiled form of "0" for every key
TinyLRU_setZero(map, k, v) ==
    LET put == Append(Delete(map, k), [k |-> k, v |-> "0"]) IN
    IF Len(put) > CacheCapacity THEN Tail(put) ELSE put

\* a faulty TinyLRU.set, which never drops an entry
TinyLRU_setKeepAll(map, k, v) == Append(Delete(map, k), [k |-> k, v |-> v])

\* TinyLRU.set: (re)insert as newest, then drop the oldest when over capacity
TinyLRU_set(map, k, v) ==
    LET put == Append(Delete(map, k), [k |-> k, v |-> v]) IN
    IF Len(put) > CacheCapacity THEN Tail(put) ELSE put

\* compile(expr): the compiled expression and the cache after the call
compile(expr, map) ==
    LET key == Trim(expr)
        got == TinyLRU_get(map, key)
        parsed == Parse(key)
    IN  IF got.hit THEN [ok |-> TRUE, fn |-> got.v, map |-> got.map, key |-> key]
        ELSE IF ~parsed.ok THEN [ok |-> FALSE, fn |-> "", map |-> map, key |-> key]
        ELSE [ok |-> TRUE, fn |-> parsed.compiled, key |-> key,
              map |-> TinyLRU_set(map, key, parsed.compiled)]

----------------------------------------------------------------------------
(* Contexts handed to evaluate directly (and by the host function inner) *)

NoMap == [x \in {} |-> 0]

CtxIds == {1, 2, 3}

Ctx(i) ==
    CASE i = 1 ->
            [id |-> "A", level |-> 1, attr |-> [str |-> 16, dex |-> 14],
             res |-> NoMap, prof |-> NoMap, derived |-> NoMap,
             vars |-> [base_hp |-> Undefined,
                       caps |-> [NoKeys EXCEPT !["ac.dex"] = Num(2)],
                       bonuses |-> [NoKeys EXCEPT !["ac.shield"] = Num(1)]]]
      [] i = 2 ->
            [id |-> "B", level |-> 7, attr |-> NoMap,
             res |-> NoMap, prof |-> NoMap, derived |-> NoMap,
             vars |-> NoVars]
      [] i = 3 ->
            [id |-> "C", level |-> 2, attr |-> [str |-> 8, dex |-> 7],
             res |-> [hp |-> [current |-> 3, max |-> 5]], prof |-> NoMap,
             derived |-> [dex_mod |-> -2],
             vars |-> [base_hp |-> Num(10),
                       caps |-> [NoKeys EXCEPT !["ac.dex"] = PosInf],
                       bonuses |-> [NoKeys EXCEPT !["ac.shield"] = NaN,
                                                  !["nope"] = Num(4)]]]

----------------------------------------------------------------------------
(* evaluate(expr, ctx) *)

BinaryOps == {"add", "sub", "mul", "div"}

Apply(op, x, y) ==
    CASE op = "add" -> JsAdd(x, y)
      [] op = "sub" -> JsSub(x, y)
      [] op = "mul" -> JsMul(x, y)
      [] op = "div" -> JsDiv(x, y)

\* a faulty normal exit, which returns the result without the finiteness test
ReturnedRaw(r) ==
    [out |-> r.v.n, raw |-> r.v, m |-> [r.m EXCEPT !.varsRef = NullRef]]

\* a faulty catch block, which leaves _varsRef as it is
CaughtBound(m) == [out |-> 0, raw |-> Thrown, m |-> m]

\* the try block's normal exit: _varsRef = null; finite result or 0
Returned(r) ==
    [out |-> IF IsFinite(r.v) THEN r.v.n ELSE 0, raw |-> r.v,
     m |-> [r.m EXCEPT !.varsRef = NullRef]]

\* the catch block: _varsRef = null; return 0
Caught(m) == [out |-> 0, raw |-> Thrown, m |-> [m EXCEPT !.varsRef = NullRef]]

RECURSIVE Run(_, _, _)
RECURSIVE evaluate(_, _, _)

\* a binary operator once both operands l and r are evaluated
Combine(e, l, r) ==
    IF r.v.t = "throw" THEN r ELSE [v |-> Apply(e.op, l.v, r.v), m |-> r.m]

\* a binary operator once its left operand l is evaluated
RunRight(e, scope, l) ==
    IF l.v.t = "throw" THEN l ELSE Combine(e, l, Run(e.b, scope, l.m))

\* mod(a) once its argument a is evaluated
ModResult(a) ==
    IF a.v.t = "throw" THEN a ELSE [v |-> mod(a.v), m |-> a.m]

\* cap(a, key) once its argument a is evaluated
CapResult(e, scope, a) ==
    IF a.v.t = "throw" THEN a
    ELSE [v |-> cap(a.v, e.key, a.m.varsRef),
          m |-> LogRead(a.m, scope, "cap", e.key)]

\* the value of vars.inner(), inner being what the nested evaluate returned
Inner(inner) == [v |-> Num(inner.out), m |-> inner.m]

\* fn.evaluate(scope): the value (or Thrown) and the module state after it
Run(e, scope, m) ==
    CASE e.op = "lit" -> [v |-> Num(e.n), m |-> m]
      [] e.op = "level" -> [v |-> Num(scope.level), m |-> m]
      [] e.op = "attr" ->
            [v |-> IF e.id \in DOMAIN scope.attr THEN Num(scope.attr[e.id])
                   ELSE Undefined,
             m |-> m]
      [] e.op = "res" ->
            [v |-> IF e.id \in DOMAIN scope.res THEN Num(scope.res[e.id][e.field])
                   ELSE Thrown,
             m |-> m]
      [] e.op = "derived" ->
            [v |-> IF e.id \in DOMAIN scope.derived THEN Num(scope.derived[e.id])
                   ELSE Undefined,
             m |-> m]
      [] e.op = "base_hp" -> [v |-> scope.vars.base_hp, m |-> m]
      [] e.op = "ident" -> [v |-> Thrown, m |-> m]
      [] e.op \in BinaryOps -> RunRight(e, scope, Run(e.a, scope, m))
      [] e.op = "mod" -> ModResult(Run(e.a, scope, m))
      [] e.op = "cap" -> CapResult(e, scope, Run(e.a, scope, m))
      [] e.op = "cap_value" ->
            [v |-> cap_value(e.key, m.varsRef),
             m |-> LogRead(m, scope, "cap_value", e.key)]
      [] e.op = "bonus" ->
            [v |-> bonus(e.key, m.varsRef), m |-> LogRead(m, scope, "bonus", e.key)]
      [] e.op = "hook" -> Inner(evaluate(e.text, Ctx(e.ctx), m))

\* the try block once fn.evaluate(scope) has returned r or raised
Leave(r) == IF r.v.t = "throw" THEN Caught(r.m) ELSE Returned(r)

\* the try block, c being what compile(expr) gave
Try(c, scope, m) ==
    IF ~c.ok THEN Caught(m)
    ELSE Leave(Run(Program(c.fn), scope,
                   [m EXCEPT !.cache = c.map, !.varsRef = Bind(scope.vars),
                             !.uses = Append(@, c.key)]))

evaluate(expr, ctx, m) ==
    IF expr = <<>> THEN [out |-> 0, raw |-> Undefined, m |-> m]
    ELSE Try(compile(expr, m.cache), MakeScope(ctx), m)

----------------------------------------------------------------------------
(* Packs *)

\* an optional formula that the pack does not give
Absent == <<"", "absent">>

OrElse(text, fallback) == IF text = Absent THEN fallback ELSE text

Tags == {"armor_heavy", "armor_medium", "armor_light", "shield"}

NoRules == [tag \in Tags |-> NoKeys]

\* a stacking table without entries
NoPolicy == [k \in VarKeys \cup {"default"} |-> "none"]

NoInventory ==
    [mode |-> "none", maxSlots |-> Undefined, weightLimitFormula |-> Absent,
     slotTypes |-> <<>>]

\* the pack of characterActions.test.ts
TestPack ==
    [metadata |-> [id |-> "sys"],
     schema |->
       [attributes |-> <<[id |-> "dex", default |-> Num(16), min |-> Num(1), max |-> Num(30)]>>,
        resources |-> <<>>,
        proficiencyCategories |-> <<>>,
        itemSlots |-> <<>>,
        derived |->
          <<[id |-> "dex_mod", formula |-> <<"mod(attr.dex)">>],
            [id |-> "ac",
             formula |-> <<"10 + cap(dex_mod, 'ac.dex') + bonus('ac.shield')">>]>>,
        inventory |->
          [mode |-> "weight_limit", maxSlots |-> Num(36),
           weightLimitFormula |-> <<"0">>,
           slotTypes |-> <<[id |-> "armor", maxEquipped |-> Num(1)],
                           [id |-> "off_hand", maxEquipped |-> Num(1)]>>]],
     mechanics |-> [inventory |-> NoInventory],
     rules |->
       [tagCaps |-> [NoRules EXCEPT !["armor_heavy"]["ac.dex"] = Num(0),
                                    !["armor_medium"]["ac.dex"] = Num(2),
                                    !["armor_light"]["ac.dex"] = PosInf],
        tagBonuses |-> [NoRules EXCEPT !["shield"]["ac.shield"] = Num(2)],
        stacking |-> [caps |-> [NoPolicy EXCEPT !["default"] = "min"],
                      bonuses |-> [NoPolicy EXCEPT !["default"] = "sum",
                                                   !["ac.shield"] = "max"]]]]

\* the same rules with the armor class reading derived.dex_mod, a legacy slot
\* list, a two-position slot and no stacking tables
ArmorPack ==
    [TestPack EXCEPT
       !.metadata.id = "armor",
       !.schema.derived =
          <<[id |-> "dex_mod", formula |-> <<"mod(attr.dex)">>],
            [id |-> "ac",
             formula |-> <<"10 + cap(derived.dex_mod, 'ac.dex') + bonus('ac.shield')">>]>>,
       !.schema.itemSlots = <<[id |-> "armor", maxEquipped |-> Num(1)]>>,
       !.schema.inventory = [NoInventory EXCEPT
          !.slotTypes = <<[id |-> "hands", maxEquipped |-> Num(2)]>>],
       !.mechanics.inventory = [NoInventory EXCEPT
          !.mode = "hybrid", !.maxSlots = Num(20),
          !.weightLimitFormula = <<"attr.str * 15">>],
       !.rules.stacking = [caps |-> NoPolicy, bonuses |-> NoPolicy]]

\* hit points from constitution, hit dice from level
HealthPack ==
    [metadata |-> [id |-> "health"],
     schema |->
       [attributes |-> <<[id |-> "con", default |-> Num(14), min |-> Num(1), max |-> Num(20)]>>,
        resources |-> <<[id |-> "hp", defaultMaxFormula |-> <<"mod(attr.con)">>],
                        [id |-> "hd", defaultMaxFormula |-> <<"level">>],
                        [id |-> "luck", defaultMaxFormula |-> Absent]>>,
        proficiencyCategories |-> <<[id |-> "skills", ranks |-> <<"untrained", "trained">>]>>,
        itemSlots |-> <<>>,
        derived |-> <<[id |-> "hp_now", formula |-> <<"res.hp.current">>]>>,
        inventory |-> NoInventory],
     mechanics |-> [inventory |-> NoInventory],
     rules |-> [tagCaps |-> NoRules, tagBonuses |-> NoRules,
                stacking |-> [caps |-> NoPolicy, bonuses |-> NoPolicy]]]

\* a resource whose max reads a derived value
DerivedMaxPack ==
    [HealthPack EXCEPT
       !.metadata.id = "derivedmax",
       !.schema.resources = <<[id |-> "hp", defaultMaxFormula |-> <<"derived.hp_max">>]>>,
       !.schema.derived = <<[id |-> "hp_max", formula |-> <<"mod(attr.con)">>]>>]

\* a resource whose max reads vars.base_hp, and one that reads a resource
\* declared after it
BaseHpPack ==
    [HealthPack EXCEPT
       !.metadata.id = "basehp",
       !.schema.resources = <<[id |-> "hp", defaultMaxFormula |-> <<"vars.base_hp + level">>],
                              [id |-> "ki", defaultMaxFormula |-> <<"res.hd.max + mod(attr.con)">>],
                              [id |-> "hd", defaultMaxFormula |-> <<"level">>]>>,
       !.schema.derived = <<[id |-> "hp_now", formula |-> <<"res.hp.current">>]>>]

\* derived values that read one declared after them and one declared before
OrderPack ==
    [HealthPack EXCEPT
       !.metadata.id = "order",
       !.schema.attributes = <<>>,
       !.schema.resources = <<>>,
       !.schema.derived = <<[id |-> "ahead", formula |-> <<"derived.lvl + 1">>],
                            [id |-> "lvl", formula |-> <<"level">>],
                            [id |-> "after", formula |-> <<"derived.lvl + 1">>]>>]

PackIds == 1..6

Pack(i) ==
    CASE i = 1 -> TestPack
      [] i = 2 -> ArmorPack
      [] i = 3 -> HealthPack
      [] i = 4 -> DerivedMaxPack
      [] i = 5 -> BaseHpPack
      [] i = 6 -> OrderPack

----------------------------------------------------------------------------
(* characterActions: the equipment aggregator *)

\* an empty slot position
Null == "null"

\* a faulty clamp of characterActions, which forgets the lower bound
clampActionHighOnly(n, lo, hi) == IntMin(hi, n)

\* clamp(n, lo, hi) of characterActions
clampAction(n, lo, hi) == IntMax(lo, IntMin(hi, n))

\* findItemByInstance(character, instanceId) finds an item
findItemByInstance(c, instanceId) ==
    \E i \in 1..Len(c.inventory.items) : c.inventory.items[i].instanceId = instanceId

\* a faulty mergeCap, in which the incoming value replaces the existing one
mergeCapLatest(existing, incoming, mode) ==
    IF ~IsFinite(ToNumber(incoming))
    THEN (IF existing.t = "undefined" THEN PosInf ELSE existing)
    ELSE ToNumber(incoming)

mergeCap(existing, incoming, mode) ==
    LET inc == ToNumber(incoming) IN
    IF ~IsFinite(inc) THEN (IF existing.t = "undefined" THEN PosInf ELSE existing)
    ELSE IF existing.t = "undefined" THEN inc
    ELSE CASE mode = "min" -> JsMin(existing, inc)
           [] mode = "max" -> JsMax(existing, inc)
           [] mode = "sum" -> JsAdd(existing, inc)

mergeBonus(existing, incoming, mode) ==
    LET inc == ToNumber(incoming) IN
    IF ~IsFinite(inc) THEN (IF existing.t = "undefined" THEN Num(0) ELSE existing)
    ELSE IF existing.t = "undefined" THEN inc
    ELSE CASE mode = "sum" -> JsAdd(existing, inc)
           [] mode = "max" -> JsMax(existing, inc)
           [] mode = "min" -> JsMin(existing, inc)

\* a faulty getStackingMode, which lets the group's default override the key
getStackingModeDefaultFirst(pack, group, key) ==
    LET table == pack.rules.stacking[group] IN
    IF table["default"] # "none" THEN table["default"]
    ELSE IF table[key] # "none" THEN table[key]
    ELSE IF group = "caps" THEN "min" ELSE "sum"

getStackingMode(pack, group, key) ==
    LET table == pack.rules.stacking[group]
        perKey == table[key]
        def == IF table["default"] # "none" THEN table["default"]
               ELSE IF group = "caps" THEN "min" ELSE "sum"
    IN  IF perKey # "none" THEN perKey ELSE def

getEquippedIds(c) ==
    UNION {{c.slots[s].equipped[i] : i \in 1..Len(c.slots[s].equipped)} :
           s \in DOMAIN c.slots} \ {Null}

\* mergeKeyedNumbers(target, incoming, policyFor, isCap): the target afterwards
mergeKeyedNumbers(target, incoming, pack, isCap) ==
    [k \in VarKeys |->
        IF incoming[k].t = "undefined" \/ ~IsFinite(ToNumber(incoming[k]))
        THEN target[k]
        ELSE IF isCap
             THEN mergeCap(target[k], ToNumber(incoming[k]),
                           getStackingMode(pack, "caps", k))
             ELSE mergeBonus(target[k], ToNumber(incoming[k]),
                             getStackingMode(pack, "bonuses", k))]

\* the tag loops of summarizeEquipmentVars: merge rules[tag] for each tag in order
RECURSIVE MergeTags(_, _, _, _, _)
MergeTags(target, tags, rules, pack, isCap) ==
    IF tags = <<>> THEN target
    ELSE MergeTags(mergeKeyedNumbers(target, rules[Head(tags)], pack, isCap),
                   Tail(tags), rules, pack, isCap)

\* one iteration of the item loop of summarizeEquipmentVars
MergeItem(acc, it, pack) ==
    [caps |-> MergeTags(mergeKeyedNumbers(acc.caps, it.caps, pack, TRUE),
                        it.tags, pack.rules.tagCaps, pack, TRUE),
     bonuses |-> MergeTags(mergeKeyedNumbers(acc.bonuses, it.bonuses, pack, FALSE),
                           it.tags, pack.rules.tagBonuses, pack, FALSE)]

\* a faulty item loop, which merges every inventory item, equipped or not
RECURSIVE SummarizeAll(_, _, _, _)
SummarizeAll(acc, items, ids, pack) ==
    IF items = <<>> THEN acc
    ELSE SummarizeAll(MergeItem(acc, Head(items), pack), Tail(items), ids, pack)

RECURSIVE SummarizeFrom(_, _, _, _)
SummarizeFrom(acc, items, ids, pack) ==
    IF items = <<>> THEN acc
    ELSE SummarizeFrom(IF Head(items).instanceId \in ids
                       THEN MergeItem(acc, Head(items), pack) ELSE acc,
                       Tail(items), ids, pack)

\* the entries of every slot's equipped array, slot after slot
RECURSIVE References(_, _)
References(slots, ids) ==
    IF ids = {} THEN <<>>
    ELSE LET s == CHOOSE s \in ids : TRUE
         IN  slots[s].equipped \o References(slots, ids \ {s})

\* the item loop run once for every slot position that holds an id
RECURSIVE SummarizeReferences(_, _, _, _)
SummarizeReferences(acc, refs, items, pack) ==
    IF refs = <<>> THEN acc
    ELSE SummarizeReferences(SummarizeFrom(acc, items, {Head(refs)} \ {Null}, pack),
                             Tail(refs), items, pack)

\* a faulty summarizeEquipmentVars, which counts an item once for every slot
\* position that holds its instanceId
summarizePerReference(c, pack) ==
    LET sum == SummarizeReferences([caps |-> NoKeys, bonuses |-> NoKeys],
                                   References(c.slots, DOMAIN c.slots),
                                   c.inventory.items, pack)
    IN  [base_hp |-> Undefined, caps |-> sum.caps, bonuses |-> sum.bonuses]

\* summarizeEquipmentVars(character, pack): { caps, bonuses }
summarizeEquipmentVars(c, pack) ==
    LET sum == SummarizeFrom([caps |-> NoKeys, bonuses |-> NoKeys],
                             c.inventory.items, getEquippedIds(c), pack)
    IN  [base_hp |-> Undefined, caps |-> sum.caps, bonuses |-> sum.bonuses]

----------------------------------------------------------------------------
(* characterFactory *)

\* a faulty clamp, which forgets the upper bound
clampMinOnly(value, min, max) ==
    IF min.t = "num" THEN IntMax(min.n, value) ELSE value

\* a faulty merge, which leaves the object as it was
mergeNothing(object, source) == object

\* lodash merge(object, source) on flat maps of numbers: the source's keys win
merge(object, source) == source @@ object

\* clamp(value, min, max) of characterFactory: the bounds are optional
clamp(value, min, max) ==
    LET v == IF min.t = "num" THEN IntMax(min.n, value) ELSE value IN
    IF max.t = "num" THEN IntMin(max.n, v) ELSE v

Nulls(n) == [i \in 1..n |-> Null]

RECURSIVE FillSlots(_, _)
FillSlots(out, all) ==
    IF all = <<>> THEN out
    ELSE LET s == Head(all)
             m == IntMax(1, IF s.maxEquipped.t = "num" THEN s.maxEquipped.n ELSE 1)
         IN  FillSlots((s.id :> [max |-> m, equipped |-> Nulls(m)]) @@ out, Tail(all))

buildSlots(schema) == FillSlots(NoMap, schema.itemSlots \o schema.inventory.slotTypes)

RECURSIVE FillProficiencies(_, _, _)
FillProficiencies(out, cats, seeds) ==
    IF cats = <<>> THEN out
    ELSE LET c == Head(cats)
             rank == IF c.id \in DOMAIN seeds THEN seeds[c.id]
                     ELSE IF Len(c.ranks) > 0 THEN c.ranks[1] ELSE "untrained"
         IN  FillProficiencies((c.id :> rank) @@ out, Tail(cats), seeds)

\* buildProficiencies(schema, seeds): first rank unless seeded, then merge(out, seeds)
buildProficiencies(schema, seeds) ==
    seeds @@ FillProficiencies(NoMap, schema.proficiencyCategories, seeds)

\* computeInventoryCaps(pack, evaluator, ctx), with the module state after it
InventoryCaps(invSchema, invMech, e) ==
    [mode |-> IF invSchema.mode # "none" THEN invSchema.mode
              ELSE IF invMech.mode # "none" THEN invMech.mode
              ELSE "weight_limit",
     maxSlots |-> IF invSchema.maxSlots.t = "num" THEN invSchema.maxSlots.n
                  ELSE IF invMech.maxSlots.t = "num" THEN invMech.maxSlots.n
                  ELSE 36,
     weightLimit |-> IntMax(0, e.out),
     m |-> e.m]

computeInventoryCaps(pack, ctx, m) ==
    InventoryCaps(pack.schema.inventory, pack.mechanics.inventory,
                  evaluate(OrElse(pack.schema.inventory.weightLimitFormula,
                                  OrElse(pack.mechanics.inventory.weightLimitFormula,
                                         <<"0">>)),
                           ctx, m))

RECURSIVE FillAttributes(_, _, _)
FillAttributes(attr, as, seeds) ==
    IF as = <<>> THEN attr
    ELSE LET a == Head(as)
             base == IF a.id \in DOMAIN seeds THEN seeds[a.id]
                     ELSE IF a.default.t = "num" THEN a.default.n ELSE 10
         IN  FillAttributes((a.id :> clamp(base, a.min, a.max)) @@ attr, Tail(as), seeds)

\* the resource loop of createCharacter: max from the formula unless seeded
RECURSIVE CreateResources(_, _, _, _, _)

\* one iteration, e being what evaluate gave for the resource's max formula
CreateResource(res, rs, seeds, ctx, e) ==
    LET r == Head(rs)
        max == IntMax(0, e.out)
        seeded == r.id \in DOMAIN seeds
        finalMax == IF seeded /\ seeds[r.id].max.t = "num" THEN seeds[r.id].max.n ELSE max
        current == IF seeded /\ seeds[r.id].current.t = "num"
                   THEN seeds[r.id].current.n ELSE finalMax
    IN  CreateResources(
           (r.id :> [current |-> IntMax(0, current), max |-> IntMax(0, finalMax)]) @@ res,
           Tail(rs), seeds, ctx, e.m)

\* a faulty resource loop, whose formulas see no resource at all
CreateResourcesBlind(res, rs, seeds, ctx, m) ==
    IF rs = <<>> THEN [res |-> res, m |-> m]
    ELSE CreateResource(res, rs, seeds, ctx,
                        evaluate(OrElse(Head(rs).defaultMaxFormula, <<"0">>),
                                 [ctx EXCEPT !.res = NoMap], m))

CreateResources(res, rs, seeds, ctx, m) ==
    IF rs = <<>> THEN [res |-> res, m |-> m]
    ELSE CreateResource(res, rs, seeds, ctx,
                        evaluate(OrElse(Head(rs).defaultMaxFormula, <<"0">>),
                                 [ctx EXCEPT !.res = res], m))

\* seeds for resources that the schema does not declare
UndeclaredSeeds(res, seeds) ==
    [k \in DOMAIN seeds \ DOMAIN res |->
        LET mx == IntMax(0, IF seeds[k].max.t = "num" THEN seeds[k].max.n ELSE 0) IN
        [current |-> IntMax(0, IF seeds[k].current.t = "num" THEN seeds[k].current.n
                                ELSE mx),
         max |-> mx]]

\* the derived loops of createCharacter and recalcCharacter
RECURSIVE DeriveAll(_, _, _, _)

\* one iteration, e being what evaluate gave for the derived formula
DeriveOne(derived, ds, ctx, e) ==
    DeriveAll((Head(ds).id :> e.out) @@ derived, Tail(ds), ctx, e.m)

DeriveAll(derived, ds, ctx, m) ==
    IF ds = <<>> THEN [derived |-> derived, m |-> m]
    ELSE DeriveOne(derived, ds, ctx,
                   evaluate(OrElse(Head(ds).formula, <<"0">>),
                            [ctx EXCEPT !.derived = derived], m))

\* createCharacter(pack, evaluator, options): the character (or the raised
\* error) and the module state after it
\* the returned character, der being what the derived loop gave
Created(pack, ctx, caps, der) ==
    [ok |-> TRUE,
     c |-> [systemId |-> pack.metadata.id, level |-> ctx.level, attr |-> ctx.attr,
            res |-> ctx.res, prof |-> ctx.prof, derived |-> der.derived,
            inventory |-> [mode |-> caps.mode, maxSlots |-> caps.maxSlots,
                           weightLimit |-> caps.weightLimit, items |-> <<>>,
                           carriedWeight |-> 0],
            slots |-> buildSlots(pack.schema)],
     m |-> der.m]

\* the derived values, caps being what computeInventoryCaps gave
CreateDerived(pack, ctx, caps) ==
    Created(pack, ctx, caps, DeriveAll(NoMap, pack.schema.derived, ctx, caps.m))

\* inventory caps and derived values, ctx.res holding every resource
CreateRest(pack, ctx, m) ==
    CreateDerived(pack, ctx, computeInventoryCaps(pack, ctx, m))

\* the seeds of undeclared resources, made being what the resource loop gave
CreateSeeded(pack, options, baseCtx, made) ==
    CreateRest(pack,
               [baseCtx EXCEPT
                  !.res = made.res @@ UndeclaredSeeds(made.res, options.seedResources)],
               made.m)

\* a faulty createCharacter, which does not ask for pack.metadata.id
createCharacterUnchecked(pack, options, m) ==
    LET level == IntMax(1, IF options.level.t = "num" THEN options.level.n ELSE 1)
        attr == merge(FillAttributes(NoMap, pack.schema.attributes,
                                       options.seedAttributes),
                        options.seedAttributes)
        prof == buildProficiencies(pack.schema, options.seedProficiencies)
        baseCtx == [id |-> "character", level |-> level, attr |-> attr, res |-> NoMap,
                    prof |-> prof, derived |-> NoMap, vars |-> options.vars]
    IN  CreateSeeded(pack, options, baseCtx,
                     CreateResources(NoMap, pack.schema.resources,
                                     options.seedResources, baseCtx, m))

createCharacter(pack, options, m) ==
    IF pack.metadata.id = "" THEN [ok |-> FALSE, c |-> NoMap, m |-> m]
    ELSE
      LET level == IntMax(1, IF options.level.t = "num" THEN options.level.n ELSE 1)
          attr == merge(FillAttributes(NoMap, pack.schema.attributes,
                                       options.seedAttributes),
                        options.seedAttributes)
          prof == buildProficiencies(pack.schema, options.seedProficiencies)
          baseCtx == [id |-> "character", level |-> level, attr |-> attr, res |-> NoMap,
                      prof |-> prof, derived |-> NoMap, vars |-> options.vars]
      IN  CreateSeeded(pack, options, baseCtx,
                       CreateResources(NoMap, pack.schema.resources,
                                       options.seedResources, baseCtx, m))

\* a faulty resource update, which stores the new max and keeps current
ReclampStale(res, id, newMax) ==
    [current |-> IF id \in DOMAIN res THEN res[id].current ELSE newMax,
     max |-> newMax]

\* the resource loop of recalcCharacter: new max, current clamped to it
Reclamp(res, id, newMax) ==
    [current |-> IntMin(IF id \in DOMAIN res THEN res[id].current ELSE newMax, newMax),
     max |-> newMax]

RECURSIVE RecalcResources(_, _, _, _)

\* one iteration, e being what evaluate gave for the resource's max formula
RecalcResource(res, rs, ctx, e) ==
    RecalcResources((Head(rs).id :> Reclamp(res, Head(rs).id, IntMax(0, e.out))) @@ res,
                    Tail(rs), ctx, e.m)

RecalcResources(res, rs, ctx, m) ==
    IF rs = <<>> THEN [res |-> res, m |-> m]
    ELSE RecalcResource(res, rs, ctx,
                        evaluate(OrElse(Head(rs).defaultMaxFormula, <<"0">>),
                                 [ctx EXCEPT !.res = res], m))

\* the returned character, der being what the derived loop gave
Recalculated(c, ctx, caps, der) ==
    [c |-> [c EXCEPT !.res = ctx.res,
                     !.inventory.mode = caps.mode,
                     !.inventory.maxSlots = caps.maxSlots,
                     !.inventory.weightLimit = caps.weightLimit,
                     !.derived = der.derived],
     m |-> der.m]

\* a faulty derived loop, which starts from the values of the last pass
RecalcDerivedOverOld(c, pack, ctx, caps) ==
    Recalculated(c, ctx, caps, DeriveAll(c.derived, pack.schema.derived, ctx, caps.m))

\* the derived values, caps being what computeInventoryCaps gave
RecalcDerived(c, pack, ctx, caps) ==
    Recalculated(c, ctx, caps, DeriveAll(NoMap, pack.schema.derived, ctx, caps.m))

\* inventory caps and derived values, made being what the resource loop gave
RecalcRest(c, pack, ctx, made) ==
    RecalcDerived(c, pack, [ctx EXCEPT !.res = made.res],
                  computeInventoryCaps(pack, [ctx EXCEPT !.res = made.res], made.m))

\* recalcCharacter(character, pack, evaluator, vars)
recalcCharacter(c, pack, m, v) ==
    LET ctx == [id |-> "character", level |-> c.level, attr |-> c.attr, res |-> c.res,
                prof |-> c.prof, derived |-> c.derived, vars |-> v]
    IN  RecalcRest(c, pack, ctx, RecalcResources(c.res, pack.schema.resources, ctx, m))

----------------------------------------------------------------------------
(* characterActions: recompute and the actions; each yields the character   *)
(* and the module state after it, and whether it returned early (noop)      *)

\* what an action yields when it returns r = recalcCharacter(...)
Recomputed(r) == [c |-> r.c, m |-> r.m, noop |-> FALSE]

recompute(c, pack, m) ==
    Recomputed(recalcCharacter(c, pack, m, summarizeEquipmentVars(c, pack)))

Unchanged(c, m) == [c |-> c, m |-> m, noop |-> TRUE]

\* a faulty setAttribute, which writes the attribute and skips recompute
setAttributeOnly(c, pack, m, id, value) ==
    IF id \notin DOMAIN c.attr THEN Unchanged(c, m)
    ELSE [c |-> [c EXCEPT !.attr[id] = value], m |-> m, noop |-> FALSE]

setAttribute(c, pack, m, id, value) ==
    IF id \notin DOMAIN c.attr THEN Unchanged(c, m)
    ELSE recompute([c EXCEPT !.attr[id] = value], pack, m)

\* a faulty deltaAttribute, which starts an attribute the character lacks
deltaAttributeAdding(c, pack, m, id, delta) ==
    IF id \notin DOMAIN c.attr THEN recompute([c EXCEPT !.attr = (id :> delta) @@ @], pack, m)
    ELSE recompute([c EXCEPT !.attr[id] = @ + delta], pack, m)

deltaAttribute(c, pack, m, id, delta) ==
    IF id \notin DOMAIN c.attr THEN Unchanged(c, m)
    ELSE recompute([c EXCEPT !.attr[id] = @ + delta], pack, m)

\* a faulty setLevel, which stores the level as given
setLevelAsGiven(c, pack, m, level) ==
    recompute([c EXCEPT !.level = level], pack, m)

setLevel(c, pack, m, level) ==
    recompute([c EXCEPT !.level = IntMax(1, level)], pack, m)

addLevels(c, pack, m, delta) == setLevel(c, pack, m, c.level + delta)

setResourceCurrent(c, pack, m, id, value) ==
    IF id \notin DOMAIN c.res THEN Unchanged(c, m)
    ELSE recompute([c EXCEPT !.res[id].current = clampAction(value, 0, c.res[id].max)],
                   pack, m)

\* a faulty damage, which recomputes also when the character has no such
\* resource
damageAnyway(c, pack, m, resourceId, amount) ==
    recompute(
      IF resourceId \notin DOMAIN c.res THEN c
      ELSE [c EXCEPT !.res[resourceId].current =
               clampAction(@ - IntMax(0, amount), 0, c.res[resourceId].max)],
      pack, m)

damage(c, pack, m, resourceId, amount) ==
    IF resourceId \notin DOMAIN c.res THEN Unchanged(c, m)
    ELSE recompute(
           [c EXCEPT !.res[resourceId].current =
               clampAction(@ - IntMax(0, amount), 0, c.res[resourceId].max)],
           pack, m)

heal(c, pack, m, resourceId, amount) ==
    IF resourceId \notin DOMAIN c.res THEN Unchanged(c, m)
    ELSE recompute(
           [c EXCEPT !.res[resourceId].current =
               clampAction(@ + IntMax(0, amount), 0, c.res[resourceId].max)],
           pack, m)

spend(c, pack, m, resourceId, amount) == damage(c, pack, m, resourceId, amount)

gain(c, pack, m, resourceId, amount) == heal(c, pack, m, resourceId, amount)

longRest(c, pack, m) ==
    recompute([c EXCEPT !.res = [id \in DOMAIN c.res |->
                                    [c.res[id] EXCEPT !.current = c.res[id].max]]],
              pack, m)

\* a faulty shortRest, which refills the resources as longRest does
shortRestFilling(c, pack, m) == longRest(c, pack, m)

shortRest(c, pack, m) == recompute(c, pack, m)

RECURSIVE SumWeights(_)
SumWeights(items) ==
    IF items = <<>> THEN 0
    ELSE SumWeights(SubSeq(items, 1, Len(items) - 1))
           + IntMax(0, IF items[Len(items)].weight.t = "num"
                       THEN items[Len(items)].weight.n ELSE 0)

\* addItemToInventory(character, item): no recompute
addItemToInventory(c, item) ==
    [c EXCEPT !.inventory.items = Append(@, item),
              !.inventory.carriedWeight = SumWeights(Append(c.inventory.items, item))]

\* slot.equipped.findIndex(e => e === null), 0 for -1
FirstNull(equipped) ==
    IF \E i \in 1..Len(equipped) : equipped[i] = Null
    THEN CHOOSE i \in 1..Len(equipped) :
            equipped[i] = Null /\ \A j \in 1..(i - 1) : equipped[j] # Null
    ELSE 0

\* a faulty equip, which puts the item in the first position of a full slot
equipDisplacing(c, pack, m, instanceId, slotId) ==
    IF ~findItemByInstance(c, instanceId) THEN Unchanged(c, m)
    ELSE IF slotId \notin DOMAIN c.slots THEN Unchanged(c, m)
    ELSE recompute(
           [c EXCEPT !.slots[slotId].equipped[
                        IF FirstNull(c.slots[slotId].equipped) = 0 THEN 1
                        ELSE FirstNull(c.slots[slotId].equipped)] = instanceId],
           pack, m)

equip(c, pack, m, instanceId, slotId) ==
    IF ~findItemByInstance(c, instanceId) THEN Unchanged(c, m)
    ELSE IF slotId \notin DOMAIN c.slots THEN Unchanged(c, m)
    ELSE IF FirstNull(c.slots[slotId].equipped) = 0 THEN Unchanged(c, m)
    ELSE recompute(
           [c EXCEPT !.slots[slotId].equipped[FirstNull(c.slots[slotId].equipped)] =
               instanceId],
           pack, m)

\* a faulty unequip, which empties every position of every slot
unequipEverything(c, pack, m, instanceId) ==
    recompute(
      [c EXCEPT !.slots = [s \in DOMAIN c.slots |->
          [c.slots[s] EXCEPT !.equipped = Nulls(Len(c.slots[s].equipped))]]],
      pack, m)

\* a faulty unequip, which removes the position together with the item
unequipShrinking(c, pack, m, instanceId) ==
    recompute(
      [c EXCEPT !.slots = [s \in DOMAIN c.slots |->
          [c.slots[s] EXCEPT !.equipped =
              SelectSeq(c.slots[s].equipped, LAMBDA e : e # instanceId)]]],
      pack, m)

unequip(c, pack, m, instanceId) ==
    recompute(
      [c EXCEPT !.slots = [s \in DOMAIN c.slots |->
          [c.slots[s] EXCEPT !.equipped =
              [i \in 1..Len(c.slots[s].equipped) |->
                  IF c.slots[s].equipped[i] = instanceId THEN Null
                  ELSE c.slots[s].equipped[i]]]]],
      pack, m)

----------------------------------------------------------------------------
(* Inputs of the character machine *)

NoOptions ==
    [level |-> Undefined, seedAttributes |-> NoMap, seedResources |-> NoMap,
     seedProficiencies |-> NoMap, vars |-> NoVars]

Options(i) ==
    CASE i = 1 -> NoOptions
      [] i = 2 -> [NoOptions EXCEPT !.seedAttributes = [dex |-> 14]]
      [] i = 3 -> [NoOptions EXCEPT !.seedAttributes = [dex |-> 40]]
      [] i = 4 -> [NoOptions EXCEPT
                     !.seedResources = [hp |-> [current |-> Num(5), max |-> Num(2)]]]
      [] i = 5 -> [NoOptions EXCEPT
                     !.seedResources = [hp |-> [current |-> Num(1), max |-> Undefined],
                                        mana |-> [current |-> Num(2), max |-> Num(1)]]]
      [] i = 6 -> [NoOptions EXCEPT
                     !.level = Num(2),
                     !.seedProficiencies = [skills |-> "trained"],
                     !.vars = [NoVars EXCEPT !.base_hp = Num(3)]]

\* the (pack, options) pairs createCharacter is called with
Creations ==
    {<<1, 1>>, <<2, 1>>, <<3, 1>>, <<3, 5>>, <<4, 1>>, <<4, 4>>, <<5, 6>>, <<6, 1>>}

NoItem ==
    [instanceId |-> "", tags |-> <<>>, weight |-> Undefined,
     caps |-> NoKeys, bonuses |-> NoKeys]

ChainMail ==
    [NoItem EXCEPT !.instanceId = "arm1", !.tags = <<"armor_heavy">>, !.weight = Num(55)]
Shield ==
    [NoItem EXCEPT !.instanceId = "shield1", !.tags = <<"shield">>, !.weight = Num(6)]
WeirdArmor ==
    [NoItem EXCEPT !.instanceId = "arm2", !.tags = <<"armor_medium">>,
                   !.weight = Num(10), !.caps = [NoKeys EXCEPT !["ac.dex"] = Num(1)]]

\* the items addItemToInventory is called with, for a character of pack p
Catalogue(p) ==
    CASE p = 1 -> {ChainMail, Shield}
      [] p = 2 -> {WeirdArmor}
      [] OTHER -> {}

\* the ids the actions are called with: each pack knows some and not others
InstanceIds == {"arm1", "shield1", "arm2"}
SlotIds == {"armor", "off_hand", "hands"}
AttrIds == {"dex", "con"}
AttrValues == {14, 16}
AttrRange == 14..16
ResIds == {"hp", "mana"}
Amounts == {-1, 1}

NoCall == [fn |-> ""]

NoEvaluation ==
    [text |-> <<>>, ctx |-> 0, out |-> 0, raw |-> Undefined, reads |-> <<>>,
     hit |-> FALSE, reparsed |-> FALSE, evicted |-> {}, recent |-> <<>>]

----------------------------------------------------------------------------
(* The character machine: createCharacter, then any sequence of actions *)

\* the state after createCharacter returned made for the pair p
Start(p, made) ==
    /\ made.ok
    /\ pk = p[1]
    /\ opts = p[2]
    /\ character = made.c
    /\ cache = made.m.cache
    /\ varsRef = made.m.varsRef
    /\ last = [op |-> "createCharacter", noop |-> FALSE, was |-> made.c.res]
    /\ ev = NoEvaluation
    /\ call = NoCall

Init ==
    \E p \in Creations :
      Start(p, createCharacter(Pack(p[1]), Options(p[2]), Module(<<>>, NullRef)))

\* the state after an action that yielded r
Done(name, r) ==
    /\ character' = r.c
    /\ cache' = r.m.cache
    /\ varsRef' = r.m.varsRef
    /\ last' = [op |-> name, noop |-> r.noop, was |-> character.res]
    /\ UNCHANGED <<pk, opts, ev, call>>

Here == Module(cache, varsRef)

SetAttribute ==
    \E id \in AttrIds, value \in AttrValues :
      Done("setAttribute", setAttribute(character, Pack(pk), Here, id, value))

DeltaAttribute ==
    \E id \in AttrIds, delta \in {-2, 2} :
      /\ id \in DOMAIN character.attr => character.attr[id] + delta \in AttrRange
      /\ Done("deltaAttribute", deltaAttribute(character, Pack(pk), Here, id, delta))

SetLevel ==
    \E level \in 0..MaxLevel :
      Done("setLevel", setLevel(character, Pack(pk), Here, level))

AddLevels ==
    \E delta \in {-MaxLevel, -1, 1} :
      /\ character.level + delta <= MaxLevel
      /\ Done("addLevels", addLevels(character, Pack(pk), Here, delta))

SetResourceCurrent ==
    \E id \in ResIds, value \in {-1, 1, 9} :
      Done("setResourceCurrent", setResourceCurrent(character, Pack(pk), Here, id, value))

Damage ==
    \E id \in ResIds, amount \in Amounts :
      Done("damage", damage(character, Pack(pk), Here, id, amount))

Heal ==
    \E id \in ResIds, amount \in Amounts :
      Done("heal", heal(character, Pack(pk), Here, id, amount))

Spend ==
    \E id \in ResIds :
      Done("spend", spend(character, Pack(pk), Here, id, 1))

Gain ==
    \E id \in ResIds :
      Done("gain", gain(character, Pack(pk), Here, id, 1))

LongRest == Done("longRest", longRest(character, Pack(pk), Here))

ShortRest == Done("shortRest", shortRest(character, Pack(pk), Here))

Recompute == Done("recompute", recompute(character, Pack(pk), Here))

AddItemToInventory ==
    \E item \in Catalogue(pk) :
      /\ Len(character.inventory.items) < MaxItems
      /\ character' = addItemToInventory(character, item)
      /\ last' = [op |-> "addItemToInventory", noop |-> FALSE, was |-> character.res]
      /\ UNCHANGED <<pk, opts, cache, varsRef, ev, call>>

Equip ==
    \E instanceId \in InstanceIds, slotId \in SlotIds :
      Done("equip", equip(character, Pack(pk), Here, instanceId, slotId))

Unequip ==
    \E instanceId \in InstanceIds :
      Done("unequip", unequip(character, Pack(pk), Here, instanceId))

Next ==
    \/ SetAttribute
    \/ DeltaAttribute
    \/ SetLevel
    \/ AddLevels
    \/ SetResourceCurrent
    \/ Damage
    \/ Heal
    \/ Spend
    \/ Gain
    \/ LongRest
    \/ ShortRest
    \/ Recompute
    \/ AddItemToInventory
    \/ Equip
    \/ Unequip

Spec == Init /\ [][Next]_vars

----------------------------------------------------------------------------
(* The evaluator machine: any sequence of evaluate calls on one module *)

CapAndBonus == "cap(5, 'ac.dex') + bonus('ac.shield')"

\* the expression texts evaluate is called with
Texts ==
    {<<>>, <<" ">>, <<"1 +">>,
     <<CapAndBonus>>, <<" ", CapAndBonus, " ">>,
     <<"mod(attr.str) + mod(attr.dex)">>,
     <<"1 / 0">>,
     <<"10 + cap(dex_mod, 'ac.dex') + bonus('ac.shield')">>,
     <<"bonus('ac.shield') + res.hp.max">>,
     <<"bonus('ac.shield') + vars.inner() + bonus('ac.shield')">>}

Keys(map) == {map[i].k : i \in 1..Len(map)}

\* the last n elements of a sequence
LastOf(seq, n) == SubSeq(seq, IntMax(1, Len(seq) - n + 1), Len(seq))

\* the keys in order of their last hit or insert, the most recent last,
\* after the keys in uses were hit or inserted one after the other; only
\* the CacheCapacity + 1 most recent keys are kept
RECURSIVE Touched(_, _)
Touched(recent, uses) ==
    IF uses = <<>> THEN recent
    ELSE Touched(LastOf(Append(SelectSeq(recent, LAMBDA k : k # Head(uses)),
                               Head(uses)),
                        CacheCapacity + 1),
                 Tail(uses))

InitEval ==
    /\ pk = 0
    /\ opts = 0
    /\ character = NoMap
    /\ cache = <<>>
    /\ varsRef = NullRef
    /\ last = [op |-> "", noop |-> TRUE, was |-> NoMap]
    /\ ev = NoEvaluation
    /\ call = NoCall

\* the state after evaluate(text, Ctx(i)) returned r
Evaluated(text, i, r) ==
    /\ cache' = r.m.cache
    /\ varsRef' = r.m.varsRef
    /\ ev' = [text |-> text, ctx |-> i, out |-> r.out, raw |-> r.raw,
              reads |-> r.m.reads,
              hit |-> Has(cache, Trim(text)),
              reparsed |-> Trim(text) \in ev.evicted,
              evicted |-> (ev.evicted \cup Keys(cache)) \ Keys(r.m.cache),
              recent |-> Touched(ev.recent, r.m.uses)]
    /\ UNCHANGED <<pk, opts, character, last, call>>

EvaluateCall ==
    \E text \in Texts, i \in CtxIds :
      Evaluated(text, i, evaluate(text, Ctx(i), Here))

NextEval == EvaluateCall

SpecEval == InitEval /\ [][NextEval]_vars

----------------------------------------------------------------------------
(* lookup: the tables of a pack and the nearest-lower-key scan *)

\* a JavaScript value handed to lookup as key: a number or a string
NumKey(n) == [t |-> "num", n |-> n, s |-> ""]
StrKey(s) == [t |-> "str", n |-> 0, s |-> s]
UndefinedKey == [t |-> "undefined", n |-> 0, s |-> ""]

\* the decimal numerals of the integers -1..10
Numerals == <<"-1", "0", "1", "2", "3", "4", "5", "6", "7", "8", "9", "10">>

\* String(key)
JsString(key) ==
    IF key.t = "str" THEN key.s
    ELSE IF key.t = "num" THEN Numerals[key.n + 2]
    ELSE "undefined"

\* Number(k) of a string: the integer a numeral denotes, NaN for other text
JsNumber(k) ==
    IF \E i \in 1..Len(Numerals) : Numerals[i] = k
    THEN Num((CHOOSE i \in 1..Len(Numerals) : Numerals[i] = k) - 2)
    ELSE NaN

\* the key of keys with the smallest number
LeastKey(keys) == CHOOSE k \in keys : \A j \in keys : JsNumber(k).n <= JsNumber(j).n

\* Object.keys(t): the integer keys in ascending order, then the other keys
RECURSIVE ObjectKeys(_)
ObjectKeys(keys) ==
    IF keys = {} THEN <<>>
    ELSE IF \E k \in keys : JsNumber(k).t = "num" /\ JsNumber(k).n >= 0
    THEN LET ints == {k \in keys : JsNumber(k).t = "num" /\ JsNumber(k).n >= 0}
         IN  <<LeastKey(ints)>> \o ObjectKeys(keys \ {LeastKey(ints)})
    ELSE LET k == CHOOSE k \in keys : TRUE
         IN  <<k>> \o ObjectKeys(keys \ {k})

\* tables: rules.lookups, overridden by content.lookups
createTables(pack) ==
    [name \in DOMAIN pack.rules.lookups \cup DOMAIN pack.content.lookups |->
       IF name \in DOMAIN pack.content.lookups
       THEN pack.content.lookups[name]
       ELSE pack.rules.lookups[name]]

\* the for loop of lookup over the keys not yet visited
RECURSIVE Scan(_, _, _, _, _)
Scan(t, keys, n, best, val) ==
    IF keys = <<>> THEN val
    ELSE IF /\ JsNumber(Head(keys)).t # "nan"
            /\ JsLe(JsNumber(Head(keys)), n)
            /\ ~JsLe(JsNumber(Head(keys)), best)
    THEN Scan(t, Tail(keys), n, JsNumber(Head(keys)), OrZero(t[Head(keys)]))
    ELSE Scan(t, Tail(keys), n, best, val)

\* a faulty lookup, which knows exact matches only
lookupExactOnly(tables, table, key) ==
    IF table \notin DOMAIN tables THEN Num(0)
    ELSE IF JsString(key) \in DOMAIN tables[table]
    THEN OrZero(tables[table][JsString(key)])
    ELSE Num(0)

lookup(tables, table, key) ==
    IF table \notin DOMAIN tables THEN Num(0)
    ELSE IF JsString(key) \in DOMAIN tables[table]
    THEN OrZero(tables[table][JsString(key)])
    ELSE IF JsNumber(JsString(key)).t # "nan"
    THEN Scan(tables[table], ObjectKeys(DOMAIN tables[table]),
              JsNumber(JsString(key)), NegInf, Num(0))
    ELSE Num(0)

\* the table of characterEvaluator.test.ts with one more, non-numeric key
ProfByLevel == ("1" :> Num(2)) @@ ("5" :> Num(3)) @@ ("9" :> Num(4)) @@ ("x" :> Num(7))

\* the values other lookups give for the same keys
Overrides == ("1" :> Num(6)) @@ ("5" :> Num(8))

NoTables == [name \in {} |-> NoMap]

\* packs as the evaluator sees them: every part of the first table under
\* rules.lookups, without and with an overriding table under content.lookups
LookupPacks ==
    {[rules |-> [lookups |-> ("prof_by_level" :> [k \in S |-> ProfByLevel[k]])],
      content |-> [lookups |-> NoTables]] : S \in SUBSET DOMAIN ProfByLevel}
    \cup {[rules |-> [lookups |-> ("prof_by_level" :> ProfByLevel)],
           content |-> [lookups |-> ("prof_by_level" :> Overrides)]],
          [rules |-> [lookups |-> NoTables], content |-> [lookups |-> NoTables]]}

TableNames == {"prof_by_level", "spells"}

LookupKeys ==
    {NumKey(n) : n \in -1..10} \cup {StrKey("5"), StrKey("7"), StrKey("x"), StrKey("y")}
    \cup {UndefinedKey}

InitLookup ==
    /\ pk = 0
    /\ opts = 0
    /\ character = NoMap
    /\ cache = <<>>
    /\ varsRef = NullRef
    /\ last = [op |-> "", noop |-> TRUE, was |-> NoMap]
    /\ ev = NoEvaluation
    /\ call = NoCall

LookupCall ==
    \E pack \in LookupPacks, table \in TableNames, key \in LookupKeys :
      /\ call' = [fn |-> "lookup", tables |-> createTables(pack), table |-> table,
                  key |-> key, out |-> lookup(createTables(pack), table, key)]
      /\ UNCHANGED <<pk, opts, character, cache, varsRef, last, ev>>

NextLookup == LookupCall

SpecLookup == InitLookup /\ [][NextLookup]_vars

----------------------------------------------------------------------------
(* summarizeEquipmentVars called directly: packs with every kind of stacking *)
(* table, inventories of up to three items, any set of equipped ids          *)

\* tag rules that carry both infinities, as normalizePack lets them through
SumRules ==
    [TestPack.rules EXCEPT !.tagBonuses["armor_heavy"]["ac.shield"] = NegInf]

\* the stacking tables: the test pack's, none, defaults only, per-key entries
SumPack(i) ==
    CASE i = 1 -> [TestPack EXCEPT !.rules = SumRules]
      [] i = 2 -> [TestPack EXCEPT !.rules =
                     [SumRules EXCEPT !.stacking = [caps |-> NoPolicy, bonuses |-> NoPolicy]]]
      [] i = 3 -> [TestPack EXCEPT !.rules =
                     [SumRules EXCEPT !.stacking =
                        [caps |-> [NoPolicy EXCEPT !["default"] = "max"],
                         bonuses |-> [NoPolicy EXCEPT !["default"] = "min"]]]]
      [] i = 4 -> [TestPack EXCEPT !.rules =
                     [SumRules EXCEPT !.stacking =
                        [caps |-> [NoPolicy EXCEPT !["default"] = "min", !["ac.dex"] = "sum"],
                         bonuses |-> [NoPolicy EXCEPT !["default"] = "max",
                                                      !["ac.shield"] = "sum"]]]]

SumPackIds == 1..4

Leather ==
    [NoItem EXCEPT !.instanceId = "leather1", !.tags = <<"armor_light">>, !.weight = Num(8)]
Buckler ==
    [NoItem EXCEPT !.instanceId = "buckler1", !.tags = <<"shield", "armor_medium">>,
                   !.weight = Num(3), !.bonuses = [NoKeys EXCEPT !["ac.shield"] = Num(3)]]
Plate ==
    [NoItem EXCEPT !.instanceId = "plate1", !.tags = <<"armor_heavy", "armor_medium">>,
                   !.weight = Num(65), !.caps = [NoKeys EXCEPT !["ac.dex"] = Num(5)]]

SumItems == {ChainMail, Shield, WeirdArmor, Leather, Buckler, Plate}

\* character.inventory.items: up to three different items in any order
Inventories ==
    {items \in UNION {[1..n -> SumItems] : n \in 0..3} :
       \A i, j \in 1..Len(items) : items[i] = items[j] => i = j}

\* the ids of a set in some order, then null up to n positions
RECURSIVE Positions(_, _)
Positions(ids, n) ==
    IF n = 0 THEN <<>>
    ELSE IF ids = {} THEN <<Null>> \o Positions(ids, n - 1)
    ELSE LET id == CHOOSE id \in ids : TRUE
         IN  <<id>> \o Positions(ids \ {id}, n - 1)

\* character.slots with the ids equipped: one position in armor, two in hands
SlotsWith(ids) ==
    [armor |-> [equipped |-> SubSeq(Positions(ids, 3), 1, 1)],
     hands |-> [equipped |-> SubSeq(Positions(ids, 3), 2, 3)]]

\* the same with a third slot whose positions hold the ids once more
SlotsTwice(ids) ==
    [armor |-> [equipped |-> SubSeq(Positions(ids, 3), 1, 1)],
     hands |-> [equipped |-> SubSeq(Positions(ids, 3), 2, 3)],
     off_hand |-> [equipped |-> Positions(ids, 3)]]

\* the sets of equipped ids for an inventory: ids of its items and an id
\* that no item has
Equipments(items) ==
    {ids \in SUBSET ({items[i].instanceId : i \in 1..Len(items)} \cup {"ghost"}) :
       Cardinality(ids) <= 3}

\* the character summarizeEquipmentVars is called on
Wearing(items, slots) == [inventory |-> [items |-> items], slots |-> slots]

NoSummary == [base_hp |-> Undefined, caps |-> NoKeys, bonuses |-> NoKeys]

InitSum ==
    /\ pk = 0
    /\ opts = 0
    /\ character = NoMap
    /\ cache = <<>>
    /\ varsRef = NullRef
    /\ last = [op |-> "", noop |-> TRUE, was |-> NoMap]
    /\ ev = NoEvaluation
    /\ \E i \in SumPackIds, items \in Inventories :
         \E ids \in Equipments(items) :
           \E slots \in {SlotsWith(ids), SlotsTwice(ids)} :
             call = [fn |-> "", pack |-> i, items |-> items, slots |-> slots,
                     out |-> NoSummary]

Summarize ==
    /\ call.fn = ""
    /\ call' = [call EXCEPT
                  !.fn = "summarizeEquipmentVars",
                  !.out = summarizeEquipmentVars(Wearing(call.items, call.slots),
                                                 SumPack(call.pack))]
    /\ UNCHANGED <<pk, opts, character, cache, varsRef, last, ev>>

NextSum == Summarize

SpecSum == InitSum /\ [][NextSum]_vars

----------------------------------------------------------------------------
(* createCharacter called directly: packs without id, with formulas that    *)
(* fail, with attributes of every shape; options with and without seeds     *)

\* a pack whose metadata.id is missing or empty ("" stands for both)
NoIdPack == [TestPack EXCEPT !.metadata.id = ""]

\* a pack whose formulas do not parse, raise, are not finite or are missing
BrokenPack ==
    [HealthPack EXCEPT
       !.metadata.id = "broken",
       !.schema.resources = <<[id |-> "hp", defaultMaxFormula |-> <<"1 +">>],
                              [id |-> "mp", defaultMaxFormula |-> <<"1 / 0">>],
                              [id |-> "luck", defaultMaxFormula |-> Absent]>>,
       !.schema.derived =
          <<[id |-> "ac", formula |-> <<"10 + cap(dex_mod, 'ac.dex') + bonus('ac.shield')">>],
            [id |-> "none", formula |-> Absent]>>,
       !.schema.inventory = [NoInventory EXCEPT !.weightLimitFormula = <<"1 +">>]]

\* attributes with and without default, min and max
AttrPack ==
    [HealthPack EXCEPT
       !.metadata.id = "attrs",
       !.schema.attributes =
          <<[id |-> "dex", default |-> Num(16), min |-> Num(1), max |-> Num(30)],
            [id |-> "str", default |-> Undefined, min |-> Num(1), max |-> Num(30)],
            [id |-> "wis", default |-> Undefined, min |-> Num(12), max |-> Undefined],
            [id |-> "luck", default |-> Num(50), min |-> Undefined, max |-> Num(20)],
            [id |-> "con", default |-> Num(14), min |-> Num(1), max |-> Num(20)]>>]

\* resources whose max reads a resource declared before, itself, one declared
\* after
ResOrderPack ==
    [HealthPack EXCEPT
       !.metadata.id = "resorder",
       !.schema.resources =
          <<[id |-> "a", defaultMaxFormula |-> <<"level">>],
            [id |-> "b", defaultMaxFormula |-> <<"res.a.max + res.a.current">>],
            [id |-> "me", defaultMaxFormula |-> <<"res.me.max + 1">>],
            [id |-> "early", defaultMaxFormula |-> <<"res.late.max + 1">>],
            [id |-> "late", defaultMaxFormula |-> <<"level">>]>>,
       !.schema.derived = <<>>]

CreatePackIds == 1..10

CreatePack(i) ==
    CASE i \in PackIds -> Pack(i)
      [] i = 7 -> NoIdPack
      [] i = 8 -> BrokenPack
      [] i = 9 -> AttrPack
      [] i = 10 -> ResOrderPack

CreateOptionIds == 1..11

CreateOptions(j) ==
    CASE j \in 1..6 -> Options(j)
      [] j = 7 -> [NoOptions EXCEPT !.level = Num(0)]
      [] j = 8 -> [NoOptions EXCEPT !.level = Num(-3),
                                    !.seedAttributes = [str |-> 40, wis |-> 3, cha |-> 5]]
      [] j = 9 -> [NoOptions EXCEPT !.seedAttributes = [dex |-> 0, luck |-> 7]]
      [] j = 10 -> [NoOptions EXCEPT !.level = Num(MaxLevel + 1),
                                     !.seedAttributes = [con |-> 20]]
      [] j = 11 -> [NoOptions EXCEPT
                      !.seedResources = [a |-> [current |-> Num(1), max |-> Num(3)],
                                         late |-> [current |-> Num(4), max |-> Num(4)]]]

NoCharacter == [ok |-> FALSE, c |-> NoMap]

InitCreate ==
    /\ pk = 0
    /\ opts = 0
    /\ character = NoMap
    /\ cache = <<>>
    /\ varsRef = NullRef
    /\ last = [op |-> "", noop |-> TRUE, was |-> NoMap]
    /\ ev = NoEvaluation
    /\ \E i \in CreatePackIds, j \in CreateOptionIds :
         call = [fn |-> "", pack |-> i, options |-> j, out |-> NoCharacter]

\* what the caller of createCharacter gets: the character, or the error
Outcome(made) == [ok |-> made.ok, c |-> made.c]

Create ==
    /\ call.fn = ""
    /\ call' = [call EXCEPT
                  !.fn = "createCharacter",
                  !.out = Outcome(createCharacter(CreatePack(call.pack),
                                                  CreateOptions(call.options),
                                                  Module(<<>>, NullRef)))]
    /\ UNCHANGED <<pk, opts, character, cache, varsRef, last, ev>>

NextCreate == Create

SpecCreate == InitCreate /\ [][NextCreate]_vars

----------------------------------------------------------------------------
(* packValidate: normalizePack applied to validated packs, once and again   *)

\* an optional property: absent, or present with value v
None == [has |-> FALSE, v |-> <<>>]
Some(v) == [has |-> TRUE, v |-> v]

\* a NumberLike given as text
Text(s) == [t |-> "str", n |-> 0, s |-> s]

\* a faulty coerceNumberLike, without the shortcuts for values that are
\* numbers already
coerceNumberLikeTextOnly(v) ==
    IF v = Text("Infinity") THEN PosInf
    ELSE IF v = Text("-Infinity") THEN NegInf
    ELSE IF v.t = "str" THEN (IF IsFinite(JsNumber(v.s)) THEN JsNumber(v.s) ELSE Num(0))
    ELSE IF IsFinite(v) THEN v ELSE Num(0)

\* coerceNumberLike(v)
coerceNumberLike(v) ==
    IF v.t \in {"num", "inf", "nan"} THEN v
    ELSE IF v = Text("Infinity") THEN PosInf
    ELSE IF v = Text("-Infinity") THEN NegInf
    ELSE IF IsFinite(JsNumber(v.s)) THEN JsNumber(v.s) ELSE Num(0)

\* step 1 of normalizePack: slotTypes from the legacy itemSlots
BackCompat(schema) ==
    IF ~schema.inventory.v.slotTypes.has /\ schema.itemSlots.has
    THEN [schema EXCEPT !.inventory = Some([schema.inventory.v EXCEPT
                                              !.slotTypes = schema.itemSlots])]
    ELSE schema

\* step 2 of normalizePack, for one of tagCaps and tagBonuses
Coerced(group) ==
    IF ~group.has THEN group
    ELSE Some([tag \in DOMAIN group.v |->
                 [k \in DOMAIN group.v[tag] |-> coerceNumberLike(group.v[tag][k])]])

\* x || fallback for an optional object
Or(x, fallback) == IF x.has THEN x ELSE Some(fallback)

\* step 3 of normalizePack: the stacking defaults
StackingDefaults(stacking) ==
    Some([caps |-> Or(Or(stacking, [caps |-> None, bonuses |-> None]).v.caps,
                      [NoPolicy EXCEPT !["default"] = "min"]),
          bonuses |-> Or(Or(stacking, [caps |-> None, bonuses |-> None]).v.bonuses,
                         [NoPolicy EXCEPT !["default"] = "sum"])])

\* normalizePack(pack)
normalizePack(pack) ==
    [schema |-> BackCompat(pack.schema),
     rules |-> [tagCaps |-> Coerced(pack.rules.tagCaps),
                tagBonuses |-> Coerced(pack.rules.tagBonuses),
                stacking |-> StackingDefaults(pack.rules.stacking)]]

\* the NumberLike values a validated pack may hold
NumberLikes ==
    {Num(5), Text("5"), Text("Infinity"), Text("-Infinity"), Text("abc"), NaN, PosInf, NegInf}

ItemSlotLists ==
    {None, Some(<<>>), Some(<<[id |-> "armor", maxEquipped |-> Num(1)]>>)}

\* schema.inventory: absent, or with slotTypes absent, empty or given
RawInventories ==
    {[has |-> FALSE, v |-> [slotTypes |-> None]]}
      \cup {Some([slotTypes |-> t]) :
               t \in {None, Some(<<>>), Some(<<[id |-> "hands", maxEquipped |-> Num(2)]>>)}}

RawTagCaps ==
    {None} \cup {Some("armor_heavy" :> ("ac.dex" :> v)) : v \in NumberLikes}

RawTagBonuses ==
    {None, Some("shield" :> ("ac.shield" :> Text("2") @@ "ac.dex" :> Num(1))
                  @@ "armor_light" :> NoMap)}

RawStackings ==
    {None,
     Some([caps |-> None, bonuses |-> None]),
     Some([caps |-> Some([NoPolicy EXCEPT !["default"] = "max"]), bonuses |-> None]),
     Some([caps |-> Some(NoPolicy),
           bonuses |-> Some([NoPolicy EXCEPT !["ac.shield"] = "max"])])}

\* the validated packs normalizePack is called with
RawPacks ==
    {[schema |-> [itemSlots |-> slots, inventory |-> inv],
      rules |-> [tagCaps |-> caps, tagBonuses |-> bonuses, stacking |-> st]] :
       slots \in ItemSlotLists, inv \in RawInventories, caps \in RawTagCaps,
       bonuses \in RawTagBonuses, st \in RawStackings}

InitNormalize ==
    /\ pk = 0
    /\ opts = 0
    /\ character = NoMap
    /\ cache = <<>>
    /\ varsRef = NullRef
    /\ last = [op |-> "", noop |-> TRUE, was |-> NoMap]
    /\ ev = NoEvaluation
    /\ \E pack \in RawPacks :
         call = [fn |-> "", calls |-> 0, pack |-> pack, out |-> pack, before |-> pack]

\* normalizePack called on the validated pack
Normalize ==
    /\ call.fn = ""
    /\ call' = [call EXCEPT !.fn = "normalizePack", !.calls = 1,
                            !.out = normalizePack(call.pack)]
    /\ UNCHANGED <<pk, opts, character, cache, varsRef, last, ev>>

\* normalizePack called on what it returned
NormalizeAgain ==
    /\ call.fn = "normalizePack"
    /\ call.calls = 1
    /\ call' = [call EXCEPT !.calls = 2, !.before = call.out,
                            !.out = normalizePack(call.out)]
    /\ UNCHANGED <<pk, opts, character, cache, varsRef, last, ev>>

NextNormalize ==
    \/ Normalize
    \/ NormalizeAgain

SpecNormalize == InitNormalize /\ [][NextNormalize]_vars

----------------------------------------------------------------------------
(* Properties of the character machine *)

\* the actions that end in recompute
RecomputingOps ==
    {"setAttribute", "deltaAttribute", "setLevel", "addLevels", "setResourceCurrent",
     "damage", "heal", "spend", "gain", "longRest", "shortRest", "recompute",
     "equip", "unequip"}

\* the mutating actions of the actions module
MutatingOps ==
    {"setAttribute", "deltaAttribute", "setLevel", "addLevels", "setResourceCurrent",
     "damage", "heal", "longRest", "shortRest", "equip", "unequip"}

\* the actions that write no resource before they recompute
KeepingOps ==
    {"setAttribute", "deltaAttribute", "setLevel", "addLevels", "shortRest",
     "recompute", "equip", "unequip"}

SchemaResourceIds(pack) ==
    {pack.schema.resources[i].id : i \in 1..Len(pack.schema.resources)}

\* the slot positions that hold instance id
Occupied(c, id) ==
    UNION {{<<s, i>> : i \in {j \in 1..Len(c.slots[s].equipped) :
                                c.slots[s].equipped[j] = id}} :
           s \in DOMAIN c.slots}

\* the context recompute evaluates the derived formulas of character c in
FreshContext(c, pack) ==
    [id |-> "character", level |-> c.level, attr |-> c.attr, res |-> c.res,
     prof |-> c.prof, derived |-> NoMap, vars |-> summarizeEquipmentVars(c, pack)]

\* characters c and d have the same res map and the same derived map
SameMaps(c, d) == c.res = d.res /\ c.derived = d.derived

(* C1: in every state reached from createCharacter (seeded or not) through  *)
(* the actions, every resource of the character has 0 <= current <= max.    *)
C1_ResourceWithinMax ==
    \A id \in DOMAIN character.res :
      /\ 0 <= character.res[id].current
      /\ character.res[id].current <= character.res[id].max

(* C2: no item instance id occupies more than one position across all the   *)
(* slots' equipped arrays, also after equip is called for an instance that  *)
(* is equipped already.                                                     *)
C2_OnePositionPerInstance ==
    \A id \in InstanceIds : Cardinality(Occupied(character, id)) <= 1

(* C3: recompute is idempotent: after an action that ended in recompute, a  *)
(* further recompute with nothing changed in between leaves the res map and *)
(* the derived map as they are.                                             *)
C3_RecomputeIdempotent ==
    (last.op \in RecomputingOps /\ ~last.noop) =>
      SameMaps(character, recompute(character, Pack(pk), Here).c)

(* C4: with the test pack (dex_mod = mod(attr.dex), ac = 10 + cap(dex_mod,  *)
(* 'ac.dex') + bonus('ac.shield'), armor_heavy caps ac.dex at 0, shield     *)
(* gives ac.shield 2), the heavy armor in slot armor, the shield in slot    *)
(* off_hand and a dexterity of 14 or 16, derived.ac after recompute is 12.  *)
C4_ArmorClassIsTwelve ==
    ( /\ pk = 1
      /\ last.op \in RecomputingOps /\ ~last.noop
      /\ character.slots["armor"].equipped = <<"arm1">>
      /\ character.slots["off_hand"].equipped = <<"shield1">>
      /\ character.attr["dex"] \in {14, 16} )
    => character.derived["ac"] = 12

(* C5: recompute sets each schema resource's current to the minimum of the  *)
(* previous current and the newly computed max: a max lowered below current *)
(* lowers current to exactly the new max, and current is never raised.      *)
C5_CurrentClampedToNewMax ==
    (last.op \in KeepingOps /\ ~last.noop) =>
      \A id \in SchemaResourceIds(Pack(pk)) :
        /\ character.res[id].current =
             IntMin(last.was[id].current, character.res[id].max)
        /\ character.res[id].current <= last.was[id].current

\* an attribute change lowered a max below current, and current followed it
C5_MaxLoweredBelowCurrent ==
    /\ last.op \in {"setAttribute", "deltaAttribute"} /\ ~last.noop
    /\ \E id \in SchemaResourceIds(Pack(pk)) :
         /\ last.was[id].current <= last.was[id].max
         /\ last.was[id].current > character.res[id].max
         /\ character.res[id].current = character.res[id].max

(* C6: every mutating action that is not a no-op ends in recompute: on its  *)
(* return the derived map is the pack's derived formulas evaluated in       *)
(* declared order against the level, attr, res and prof after the action    *)
(* and the equipment vars of the slots after the action.                    *)
C6_DerivedFollowsAction ==
    (last.op \in MutatingOps /\ ~last.noop) =>
      character.derived =
        DeriveAll(NoMap, Pack(pk).schema.derived,
                  FreshContext(character, Pack(pk)), Here).derived

\* an equip changed the armor class through the cap of the equipped armor
C6_EquipChangedArmorClass ==
    /\ pk = 2
    /\ last.op = "equip" /\ ~last.noop
    /\ "arm2" \in getEquippedIds(character)
    /\ character.derived["ac"] = 11

----------------------------------------------------------------------------
(* Properties of the evaluator machine *)

(* C7: evaluate never raises: it returns 0 for an empty, unparsable or      *)
(* failing expression and for a result that is not a finite number, and the *)
(* finite numeric result otherwise.                                         *)
C7_EvaluateNeverRaises ==
    ev.ctx \in CtxIds =>
      /\ ev.out \in Int
      /\ (Trim(ev.text) = <<>> \/ ~Parse(Trim(ev.text)).ok) => ev.out = 0
      /\ ev.raw.t = "num" => ev.out = ev.raw.n
      /\ ev.raw.t # "num" => ev.out = 0

\* an expression that failed on an unknown identifier returned 0
C7_UnknownIdentifierGaveZero ==
    /\ ev.ctx \in CtxIds
    /\ ev.text = <<"10 + cap(dex_mod, 'ac.dex') + bonus('ac.shield')">>
    /\ ev.raw = Thrown
    /\ ev.out = 0

(* C8: the shared cap/bonus vars binding is null whenever no evaluate call  *)
(* is in progress: every call resets it when it returns, on success and on  *)
(* failure, so no call starts with a previous call's vars bound.            *)
C8_BindingNullBetweenCalls == varsRef = NullRef

\* a call bound its vars, read them, failed, and left the binding null
C8_FailedAfterRead ==
    /\ ev.ctx \in CtxIds
    /\ ev.raw = Thrown
    /\ Len(ev.reads) > 0
    /\ varsRef = NullRef

(* C9: the vars binding never leaks across nested evaluations: when a call  *)
(* B starts and finishes while a call A is in progress, every cap,          *)
(* cap_value and bonus read of A, before and after B, resolves against A's  *)
(* vars, and every read of B against B's vars.                              *)
C9_ReadsResolveOwnVars ==
    \A i \in 1..Len(ev.reads) : ev.reads[i].own

(* C10: the compiled-expression cache is transparent: the value evaluate    *)
(* returns for a text and a ctx is the value it returns on a module whose   *)
(* cache is empty, whether the compiled expression came from the cache, was *)
(* parsed on a miss or was parsed again after its eviction.                 *)
C10_CacheTransparent ==
    ev.ctx \in CtxIds =>
      ev.out = evaluate(ev.text, Ctx(ev.ctx), Module(<<>>, NullRef)).out

\* a text that had been evicted was parsed again and gave a value other than 0
C10_ReparsedAfterEviction ==
    /\ ev.ctx \in CtxIds
    /\ ev.reparsed /\ ~ev.hit
    /\ ev.out # 0

----------------------------------------------------------------------------
(* Properties of TinyLRU *)

\* C11: the cache holds exactly the most recently hit or inserted keys, in
\* the order of their last hit or insert: a hit makes the entry the most
\* recent one, an insert over capacity removes the one entry whose last hit
\* or insert is the oldest, and the key just hit or inserted stays in the
\* cache.
C11_EvictsLeastRecentlyUsed ==
    /\ [i \in 1..Len(cache) |-> cache[i].k] = LastOf(ev.recent, CacheCapacity)
    /\ Len(ev.recent) = CacheCapacity + 1 => ev.recent[1] \notin Keys(cache)
    /\ ev.recent # <<>> =>
         /\ cache[Len(cache)].k = ev.recent[Len(ev.recent)]
         /\ ev.recent[Len(ev.recent)] \notin ev.evicted

\* a hit on a full cache that evicted before: the key hit is the newest entry
C11_HitThenEviction ==
    /\ ev.hit
    /\ Len(cache) = CacheCapacity
    /\ ev.evicted # {}
    /\ cache[Len(cache)].k = Trim(ev.text)
    /\ ev.recent[1] \in ev.evicted

\* C12: after any sequence of evaluate calls the cache holds at most its
\* capacity of entries and at most one entry per trimmed expression text:
\* every key is a trimmed text and no key occurs twice.
C12_CacheBounded ==
    /\ Len(cache) <= CacheCapacity
    /\ \A i \in 1..Len(cache) : Trim(cache[i].k) = cache[i].k
    /\ \A i, j \in 1..Len(cache) : cache[i].k = cache[j].k => i = j

\* a text with surrounding white space found its trimmed form in a full cache
C12_PaddedTextSharedEntry ==
    /\ ev.text # Trim(ev.text)
    /\ ev.hit
    /\ Len(cache) = CacheCapacity
    /\ ev.evicted # {}

----------------------------------------------------------------------------
(* Properties of lookup *)

\* the keys of table t that denote a number which is at most the number n
AtMost(t, n) ==
    {tk \in DOMAIN t : JsNumber(tk).t = "num" /\ JsNumber(tk).n <= n}

\* C13: lookup(table, key) returns the value stored under the exact string
\* form of key when the table has it; otherwise, when key is numeric, the
\* value stored under the greatest numeric table key that is at most key;
\* and 0 when the table does not exist or there is no such key.  With the
\* thresholds 1/5/9 giving 2/3/4: key 1 gives 2, keys 5..8 give 3, keys from
\* 9 on give 4 and key 0 gives 0.
C13_LookupNearestLower ==
    call.fn = "lookup" =>
      /\ call.table \notin DOMAIN call.tables => call.out = Num(0)
      /\ call.table \in DOMAIN call.tables =>
           LET t == call.tables[call.table]
               k == JsString(call.key)
               n == JsNumber(k)
           IN  /\ k \in DOMAIN t => call.out = t[k]
               /\ k \notin DOMAIN t /\ n.t = "num" /\ AtMost(t, n.n) # {} =>
                    \E tk \in AtMost(t, n.n) :
                      /\ \A other \in AtMost(t, n.n) : JsNumber(other).n <= JsNumber(tk).n
                      /\ call.out = t[tk]
               /\ k \notin DOMAIN t /\ (n.t # "num" \/ AtMost(t, n.n) = {}) =>
                    call.out = Num(0)
               /\ t = ProfByLevel /\ call.key.t = "num" =>
                    call.out = Num(IF call.key.n >= 9 THEN 4
                                   ELSE IF call.key.n >= 5 THEN 3
                                   ELSE IF call.key.n >= 1 THEN 2 ELSE 0)

\* a key between two thresholds got the value of the lower one
C13_FellBackToLowerKey ==
    /\ call.fn = "lookup"
    /\ call.table \in DOMAIN call.tables
    /\ call.tables[call.table] = ProfByLevel
    /\ call.key = NumKey(7)
    /\ call.out = Num(3)

----------------------------------------------------------------------------
(* Properties of cap and bonus *)

\* C14: inside an evaluate call cap(value, key) is the smaller of value and
\* the current call's vars.caps[key], and value itself when vars.caps is
\* missing or has no such key; bonus(key) is the current call's
\* vars.bonuses[key], and 0 when that is absent or not a number.
C14_CapAndBonusReadCallVars ==
    Trim(ev.text) = <<CapAndBonus>> =>
      LET c == Ctx(ev.ctx).vars.caps["ac.dex"]
          b == Ctx(ev.ctx).vars.bonuses["ac.shield"]
      IN  ev.out = (IF c.t = "num" THEN IntMin(5, c.n) ELSE 5)
                   + (IF b.t = "num" THEN b.n ELSE 0)

\* a compiled expression found in the cache was capped and raised by the
\* vars of the call that used it
C14_CappedByOwnVars ==
    /\ Trim(ev.text) = <<CapAndBonus>>
    /\ ev.hit
    /\ ev.ctx = 1
    /\ ev.out = 3

----------------------------------------------------------------------------
(* Properties of the equipment aggregator *)

Groups == {"caps", "bonuses"}

\* the ids that some slot of the call's character holds in a position
Worn == {id \in {call.items[i].instanceId : i \in 1..Len(call.items)} \cup {"ghost"} :
           \E slot \in DOMAIN call.slots :
             \E i \in 1..Len(call.slots[slot].equipped) :
               call.slots[slot].equipped[i] = id}

\* the values the tag rules give for a key, in tag order
RECURSIVE TagValues(_, _, _)
TagValues(tags, rules, key) ==
    IF tags = <<>> THEN <<>>
    ELSE (IF rules[Head(tags)][key].t = "undefined" THEN <<>>
          ELSE <<rules[Head(tags)][key]>>)
         \o TagValues(Tail(tags), rules, key)

\* the values one item contributes to a key: its explicit value, then its tags'
Given(it, pack, group, key) ==
    (IF it[group][key].t = "undefined" THEN <<>> ELSE <<it[group][key]>>)
    \o TagValues(it.tags,
                 IF group = "caps" THEN pack.rules.tagCaps ELSE pack.rules.tagBonuses,
                 key)

\* all values contributed to a key by the items whose id is in worn
RECURSIVE Contributions(_, _, _, _, _)
Contributions(items, worn, pack, group, key) ==
    IF items = <<>> THEN <<>>
    ELSE (IF Head(items).instanceId \in worn
          THEN Given(Head(items), pack, group, key) ELSE <<>>)
         \o Contributions(Tail(items), worn, pack, group, key)

\* the contributions of the call's equipped items
Contributed(group, key) ==
    Contributions(call.items, Worn, SumPack(call.pack), group, key)

Finite(values) == SelectSeq(values, LAMBDA v : IsFinite(v))

\* two values combined under a policy
Stack(mode, a, b) ==
    CASE mode = "min" -> JsMin(a, b)
      [] mode = "max" -> JsMax(a, b)
      [] mode = "sum" -> JsAdd(a, b)

\* the fold of a policy over values, the first value taken as it is
RECURSIVE Fold(_, _, _)
Fold(mode, acc, values) ==
    IF values = <<>> THEN acc
    ELSE Fold(mode, Stack(mode, acc, Head(values)), Tail(values))

FoldAll(mode, values) ==
    IF values = <<>> THEN Undefined ELSE Fold(mode, Head(values), Tail(values))

\* the policy of a key as the stacking tables of the call's pack state it
Policy(group, key) ==
    LET table == SumPack(call.pack).rules.stacking[group] IN
    IF table[key] # "none" THEN table[key]
    ELSE IF table["default"] # "none" THEN table["default"]
    ELSE IF group = "caps" THEN "min" ELSE "sum"

\* C15: the policy that merges a contribution into a (group, key) is the
\* per-key entry of rules.stacking[group] when present, else the group's
\* default entry, else min for caps and sum for bonuses: two contributions to
\* one key combine under that policy, and with no per-key entry and no
\* default two caps combine to their minimum and two bonuses to their sum.
C15_PolicyResolution ==
    call.fn = "summarizeEquipmentVars" =>
      \A group \in Groups, key \in VarKeys :
        LET given == Finite(Contributed(group, key)) IN
        Len(given) = 2 =>
          /\ call.out[group][key] = Stack(Policy(group, key), given[1], given[2])
          /\ SumPack(call.pack).rules.stacking[group] = NoPolicy =>
               call.out[group][key] =
                 IF group = "caps" THEN JsMin(given[1], given[2])
                 ELSE JsAdd(given[1], given[2])

\* a pack without stacking tables: two caps gave their minimum and two
\* bonuses their sum
C15_FallbackMinAndSum ==
    /\ call.fn = "summarizeEquipmentVars"
    /\ call.pack = 2
    /\ Finite(Contributed("caps", "ac.dex")) = <<Num(2), Num(0)>>
    /\ Finite(Contributed("bonuses", "ac.shield")) = <<Num(3), Num(2)>>
    /\ call.out.caps["ac.dex"] = Num(0)
    /\ call.out.bonuses["ac.shield"] = Num(5)

\* a cap as cap_value reads it: no entry means no cap
CapRead(v) == IF v.t = "undefined" THEN PosInf ELSE v

\* a bonus as bonus reads it: no entry, or no finite number, means 0
BonusRead(v) == IF IsFinite(v) THEN v ELSE Num(0)

\* C16: for each key the summarized cap (and bonus) is the fold of the key's
\* policy over all contributions of the equipped items, the first taken as it
\* is, for every value a normalized pack can carry, +Infinity and -Infinity
\* included.  (The values are compared as cap_value and bonus read them: a key
\* without entry in caps is the cap +Infinity, a bonus that is no finite
\* number is 0.)
C16_FoldOverAllContributions ==
    call.fn = "summarizeEquipmentVars" =>
      \A key \in VarKeys :
        /\ CapRead(call.out.caps[key]) =
             CapRead(FoldAll(Policy("caps", key), Contributed("caps", key)))
        /\ BonusRead(call.out.bonuses[key]) =
             BonusRead(FoldAll(Policy("bonuses", key), Contributed("bonuses", key)))

\* the call's inventory without the items that no slot holds
WornItems == SelectSeq(call.items, LAMBDA it : it.instanceId \in Worn)

\* C17: only inventory items whose instanceId some slot's equipped array
\* holds contribute: the summary is the summary of the equipped items alone,
\* a key to which no equipped item contributes has no entry, and an equipped
\* id that no inventory item has contributes nothing.
C17_OnlyEquippedContribute ==
    call.fn = "summarizeEquipmentVars" =>
      /\ call.out = summarizeEquipmentVars(
                       Wearing(WornItems, SlotsWith(Worn \ {"ghost"})),
                       SumPack(call.pack))
      /\ \A group \in Groups, key \in VarKeys :
           Finite(Contributed(group, key)) = <<>> =>
             call.out[group][key] = Undefined
      /\ WornItems = <<>> => call.out = NoSummary

\* an item with a cap in the inventory but in no slot, another item equipped,
\* and an equipped id that no item has: the cap has no entry
C17_UnequippedItemIgnored ==
    /\ call.fn = "summarizeEquipmentVars"
    /\ "ghost" \in Worn
    /\ Len(WornItems) = 1
    /\ \E i \in 1..Len(call.items) :
         /\ call.items[i].instanceId \notin Worn
         /\ Given(call.items[i], SumPack(call.pack), "caps", "ac.dex") = <<Num(0)>>
    /\ call.out.caps["ac.dex"] = Undefined
    /\ call.out.bonuses["ac.shield"] = Num(2)

\* C18: explicit per-item metadata takes precedence over tag rules: when the
\* only equipped item carries an explicit caps (or bonuses) value for a key
\* and one of its tags has a tag-rule value for the same key, the summarized
\* value of the key is the item's explicit value.
C18_ExplicitValueWins ==
    call.fn = "summarizeEquipmentVars" /\ Len(WornItems) = 1 =>
      \A group \in Groups, key \in VarKeys :
        /\ WornItems[1][group][key].t = "num"
        /\ Len(Given(WornItems[1], SumPack(call.pack), group, key)) > 1
        => call.out[group][key] = WornItems[1][group][key]

\* the orders a sequence of n elements can be put in
Orders(n) == {p \in [1..n -> 1..n] : \A i, j \in 1..n : p[i] = p[j] => i = j}

Reverse(seq) == [i \in 1..Len(seq) |-> seq[Len(seq) + 1 - i]]

\* the items in the order p, each with its tags as they are or reversed
Reordered(items, p, flip) ==
    [i \in 1..Len(items) |->
       [items[p[i]] EXCEPT !.tags = IF flip THEN Reverse(@) ELSE @]]

Holding(id) ==
    {<<slot, i>> \in (DOMAIN call.slots) \X (1..3) :
       i <= Len(call.slots[slot].equipped) /\ call.slots[slot].equipped[i] = id}

\* C38: an equipped item contributes its caps, bonuses and tag rules exactly
\* once to summarizeEquipmentVars however many slot positions hold its
\* instanceId: the summary is the one of the same inventory with every id
\* held by one position, and under the sum policy a buckler with a bonus of 3
\* and a tag rule of 2 gives 5.
C38_ContributesOncePerItem ==
    call.fn = "summarizeEquipmentVars" =>
      /\ call.out = summarizeEquipmentVars(Wearing(call.items, SlotsWith(Worn)),
                                           SumPack(call.pack))
      /\ call.pack = 2 /\ WornItems = <<Buckler>> =>
           call.out.bonuses["ac.shield"] = Num(5)

\* the buckler is held by two slot positions and its bonuses are summed
C38_BucklerInTwoPositions ==
    /\ call.fn = "summarizeEquipmentVars"
    /\ call.pack = 2
    /\ WornItems = <<Buckler>>
    /\ Cardinality(Holding("buckler1")) = 2
    /\ getStackingMode(SumPack(call.pack), "bonuses", "ac.shield") = "sum"
    /\ call.out.bonuses["ac.shield"] = Num(5)

----------------------------------------------------------------------------
(* Properties of the actions called with unknown ids *)

\* what an action yields that returned the character as it was, without a
\* call of the evaluator
Same == [c |-> character, m |-> Here, noop |-> TRUE]

----------------------------------------------------------------------------
(* Properties of createCharacter *)

\* C21: createCharacter fails with an error and produces no character when
\* pack.metadata.id is missing or empty; with the id present creation
\* succeeds whatever the pack's formulas are, a formula that does not parse,
\* raises, is not finite or is missing contributing 0.
C21_FailsOnlyWithoutPackId ==
    call.fn = "createCharacter" =>
      /\ call.out.ok <=> CreatePack(call.pack).metadata.id # ""
      /\ ~call.out.ok => call.out.c = NoMap
      /\ call.out.ok => call.out.c.systemId = CreatePack(call.pack).metadata.id
      /\ call.out.ok /\ call.pack = 8 =>
           /\ \A id \in {"hp", "mp", "luck"} \ DOMAIN CreateOptions(call.options).seedResources :
                 call.out.c.res[id].max = 0
           /\ call.out.c.derived = [ac |-> 0, none |-> 0]
           /\ call.out.c.inventory.weightLimit = 0

\* a pack whose every formula fails gave a character
C21_CreatedDespiteBadFormulas ==
    /\ call.fn = "createCharacter"
    /\ call.pack = 8
    /\ call.out.ok
    /\ call.out.c.derived.ac = 0
    /\ call.out.c.res.hp = [current |-> 0, max |-> 0]

\* the attributes the schema of the created character's pack declares
Declared == CreatePack(call.pack).schema.attributes

\* the seedAttributes createCharacter was called with
Seeds == CreateOptions(call.options).seedAttributes

\* value lies within the bounds the attribute declares
Within(value, a) ==
    /\ a.min.t = "num" => a.min.n <= value
    /\ a.max.t = "num" => value <= a.max.n

\* C22 as stated: immediately after createCharacter every attribute declared in
\* the schema lies within its declared [min, max], whether the value came from
\* the schema default or from seedAttributes.
C22_DeclaredAttributesWithinBounds ==
    call.fn = "createCharacter" /\ call.out.ok =>
      \A i \in 1..Len(Declared) : Within(call.out.c.attr[Declared[i].id], Declared[i])

\* C22 amended: immediately after createCharacter every attribute declared in
\* the schema and not named in seedAttributes lies within its declared
\* [min, max].
C22_UnseededAttributesWithinBounds ==
    call.fn = "createCharacter" /\ call.out.ok =>
      \A i \in 1..Len(Declared) :
         Declared[i].id \notin DOMAIN Seeds =>
           Within(call.out.c.attr[Declared[i].id], Declared[i])

\* a default above the maximum and no default below the minimum were clamped
C22_DefaultsClamped ==
    /\ call.fn = "createCharacter"
    /\ call.pack = 9
    /\ call.options = 1
    /\ call.out.c.attr.luck = 20
    /\ call.out.c.attr.wis = 12

\* The value createCharacter owes an attribute: the seed, else the default or
\* 10 brought into the declared bounds.
Owed(a) ==
    IF a.id \in DOMAIN Seeds THEN Seeds[a.id]
    ELSE LET d == IF a.default.t = "num" THEN a.default.n ELSE 10
             lo == IF a.min.t = "num" /\ d < a.min.n THEN a.min.n ELSE d
         IN  IF a.max.t = "num" /\ lo > a.max.n THEN a.max.n ELSE lo

\* C23: at creation an attribute named in seedAttributes has exactly the
\* seeded value, not clamped; an attribute with no seed has the schema
\* default, or 10 when there is none, clamped to [min, max].
C23_SeedElseClampedDefault ==
    call.fn = "createCharacter" /\ call.out.ok =>
      \A i \in 1..Len(Declared) : call.out.c.attr[Declared[i].id] = Owed(Declared[i])

\* seeds outside the bounds were kept, next to a fallback of 10 and a clamped
\* default
C23_SeedKeptOutsideBounds ==
    /\ call.fn = "createCharacter"
    /\ call.pack = 9
    /\ call.options = 8
    /\ call.out.c.attr = [dex |-> 16, str |-> 40, wis |-> 3, luck |-> 20, con |-> 14, cha |-> 5]

\* C34: at creation the resource max formulas are evaluated in declared
\* order against a res map that holds only the resources declared earlier:
\* a formula reads the max and current of a resource declared before it, and
\* finds no entry for its own resource or for one declared after it, seeded
\* or not (the formula then gives 0).
C34_ResourcesSeeEarlierOnly ==
    call.fn = "createCharacter" /\ CreatePack(call.pack) = ResOrderPack =>
      /\ call.out.c.res.b.max = call.out.c.res.a.max + call.out.c.res.a.current
      /\ call.out.c.res.me.max = 0
      /\ call.out.c.res.early.max = 0
      /\ call.out.c.res.late.max > 0

\* seeded resources: the one declared before was read with its seeded max and
\* current, the one declared after was not seen
C34_ReadSeededEarlierResource ==
    /\ call.fn = "createCharacter"
    /\ CreatePack(call.pack) = ResOrderPack
    /\ call.options = 11
    /\ call.out.c.res.a = [current |-> 1, max |-> 3]
    /\ call.out.c.res.b.max = 4
    /\ call.out.c.res.late.max = 4
    /\ call.out.c.res.early.max = 0

----------------------------------------------------------------------------
(* Properties of the slots, the attribute keys and the level *)

\* the slots the schema of pack declares, legacy itemSlots first
SchemaSlots(pack) == pack.schema.itemSlots \o pack.schema.inventory.slotTypes

\* slot has one position per unit of max, and max is at least 1
WellFormed(slot) ==
    /\ slot.max >= 1
    /\ Len(slot.equipped) = slot.max

\* slot shapes a schema may declare: maxEquipped missing, zero, negative, large
SlotShapes ==
    {<<[id |-> "a", maxEquipped |-> n]>> : n \in {Undefined, Num(0), Num(-1), Num(3)}}

\* C24: for every slot of the character, equipped has exactly max positions,
\* max being the slot's maxEquipped and at least 1, at creation and in every
\* state reached through equip, unequip and the other actions.
C24_SlotLengthFixed ==
    /\ DOMAIN character.slots = {SchemaSlots(Pack(pk))[i].id : i \in 1..Len(SchemaSlots(Pack(pk)))}
    /\ \A i \in 1..Len(SchemaSlots(Pack(pk))) :
         LET s == SchemaSlots(Pack(pk))[i] IN
         /\ WellFormed(character.slots[s.id])
         /\ character.slots[s.id].max = s.maxEquipped.n
    /\ \A shape \in SlotShapes :
         LET made == buildSlots([itemSlots |-> shape, inventory |-> NoInventory]).a IN
         /\ WellFormed(made)
         /\ made.max = IF shape[1].maxEquipped = Num(3) THEN 3 ELSE 1

\* an item went into the first of the two positions of a slot, the second
\* staying empty
C24_EquippedOneOfTwo ==
    /\ last.op = "equip"
    /\ ~last.noop
    /\ "hands" \in DOMAIN character.slots
    /\ character.slots.hands.max = 2
    /\ character.slots.hands.equipped[1] # Null
    /\ character.slots.hands.equipped[2] = Null

\* the keys createCharacter gives attr: the declared ids and the seeded ones
CreatedKeys(pack, options) ==
    {pack.schema.attributes[i].id : i \in 1..Len(pack.schema.attributes)}
      \cup DOMAIN options.seedAttributes

OwedLevel(options) ==
    IF options.level.t = "num" /\ options.level.n > 1 THEN options.level.n ELSE 1

----------------------------------------------------------------------------
(* Properties of recompute, longRest and shortRest *)

\* C27: the derived formulas are evaluated in declared order within one pass,
\* at creation and in every recompute: a formula that reads a derived id
\* declared before it sees the value of this pass, and one that reads an id
\* declared after it sees no value at all, neither the new one nor the one
\* left by the pass before (the formula then gives 0).
C27_DerivedInDeclaredOrder ==
    Pack(pk) = OrderPack =>
      character.derived = [ahead |-> 0, lvl |-> character.level,
                           after |-> character.level + 1]

\* a recompute at a level other than the one the character was created with
C27_RecomputedAtNewLevel ==
    /\ Pack(pk) = OrderPack
    /\ last.op \in {"setLevel", "addLevels"}
    /\ character.level = 2
    /\ character.derived.after = 3
    /\ character.derived.ahead = 0

\* C28: on return from longRest every resource of the character has
\* current = max, whatever reachable state longRest was called in.
C28_LongRestFillsEveryResource ==
    last.op = "longRest" =>
      \A id \in DOMAIN character.res : character.res[id].current = character.res[id].max

\* what the claim compares: resources, derived values, inventory capacity
Computed(c) ==
    [res |-> c.res, derived |-> c.derived, mode |-> c.inventory.mode,
     maxSlots |-> c.inventory.maxSlots, weightLimit |-> c.inventory.weightLimit]

\* C29: shortRest yields exactly the resources, derived values and inventory
\* capacity that recompute yields from the same state.
C29_ShortRestIsRecompute ==
    /\ Computed(shortRest(character, Pack(pk), Here).c)
         = Computed(recalcCharacter(character, Pack(pk), Here,
                                    summarizeEquipmentVars(character, Pack(pk))).c)
    /\ shortRest(character, Pack(pk), Here).c = recompute(character, Pack(pk), Here).c

\* a short rest was taken by a damaged character, who is still damaged
C29_ShortRestLeftDamage ==
    /\ last.op = "shortRest"
    /\ "hp" \in DOMAIN character.res
    /\ character.res.hp.current < character.res.hp.max
    /\ last.was.hp.current = character.res.hp.current

----------------------------------------------------------------------------
(* Properties of normalizePack *)

\* what the claim compares: slotTypes, the tagCaps and tagBonuses values, and
\* the stacking tables
Normalized(pack) ==
    [slotTypes |-> pack.schema.inventory.v.slotTypes,
     tagCaps |-> pack.rules.tagCaps,
     tagBonuses |-> pack.rules.tagBonuses,
     stacking |-> pack.rules.stacking]

\* every value of the tables of group is a number
AllNumbers(group) ==
    group.has =>
      \A tag \in DOMAIN group.v : \A k \in DOMAIN group.v[tag] :
         group.v[tag][k].t \in {"num", "inf", "nan"}

\* C30: normalizePack is idempotent: applied to a pack it returned, it gives
\* the same slotTypes, the same value for every tagCaps and tagBonuses entry
\* and the same stacking tables (the first call having made every value a
\* number and both stacking tables present).
C30_NormalizeIdempotent ==
    /\ call.fn = "normalizePack" =>
         /\ AllNumbers(call.out.rules.tagCaps)
         /\ AllNumbers(call.out.rules.tagBonuses)
         /\ call.out.rules.stacking.has
         /\ call.out.rules.stacking.v.caps.has
         /\ call.out.rules.stacking.v.bonuses.has
    /\ call.fn = "normalizePack" /\ call.calls = 2 =>
         /\ Normalized(call.out) = Normalized(call.before)
         /\ call.out = call.before

\* a pack with legacy slots, a textual infinity and no stacking was
\* normalized twice
C30_NormalizedTwice ==
    /\ call.fn = "normalizePack"
    /\ call.calls = 2
    /\ call.pack.schema.itemSlots.has
    /\ ~call.pack.schema.inventory.has
    /\ call.pack.rules.tagCaps = Some("armor_heavy" :> ("ac.dex" :> Text("Infinity")))
    /\ ~call.pack.rules.stacking.has
    /\ call.out.schema.inventory.v.slotTypes = call.pack.schema.itemSlots
    /\ call.out.rules.tagCaps.v["armor_heavy"]["ac.dex"] = PosInf
    /\ call.out.rules.stacking.v.caps.v["default"] = "min"
    /\ call.out.rules.stacking.v.bonuses.v["default"] = "sum"

\* C31: after normalizePack rules.stacking.caps has a default entry and
\* rules.stacking.bonuses has a default entry, whatever stacking entries the
\* validated pack supplies.
C31_StackingDefaultsPresent ==
    call.fn = "normalizePack" =>
      /\ call.out.rules.stacking.v.caps.v["default"] \in {"min", "max", "sum"}
      /\ call.out.rules.stacking.v.bonuses.v["default"] \in {"min", "max", "sum"}

\* C33: recompute on a freshly created character (created without
\* seedResources, with or without options.vars, nothing changed and no item
\* added) leaves every resource's max and current and every derived value as
\* createCharacter set them.
C33_RecomputeKeepsCreation ==
    last.op = "createCharacter" /\ Options(opts).seedResources = NoMap =>
      /\ recompute(character, Pack(pk), Here).c.res = character.res
      /\ recompute(character, Pack(pk), Here).c.derived = character.derived

----------------------------------------------------------------------------
(* Properties of the inventory and of equip and unequip *)

\* C32: every item of character.inventory.items has an instanceId distinct
\* from that of every other item, after any sequence of addItemToInventory
\* calls with instanceIds the caller chose.
C32_InstanceIdsDistinct ==
    \A i, j \in 1..Len(character.inventory.items) :
       character.inventory.items[i].instanceId = character.inventory.items[j].instanceId
         => i = j

\* instanceId names an item of the inventory of c
Carried(c, instanceId) ==
    \E i \in 1..Len(c.inventory.items) : c.inventory.items[i].instanceId = instanceId

\* the empty positions of slot slotId of c
Free(c, slotId) ==
    {i \in 1..Len(c.slots[slotId].equipped) : c.slots[slotId].equipped[i] = Null}

\* equip has nothing to do: no such item, no such slot, or no empty position
Refused(c, instanceId, slotId) ==
    \/ ~Carried(c, instanceId)
    \/ slotId \notin DOMAIN c.slots
    \/ Free(c, slotId) = {}

\* r is what equip owes for c: c itself when refused, else the item in the
\* first empty position of the slot and every other position as it was
EquipFrame(c, r, instanceId, slotId) ==
    IF Refused(c, instanceId, slotId)
    THEN /\ r.noop
         /\ r.c = c
    ELSE /\ ~r.noop
         /\ DOMAIN r.c.slots = DOMAIN c.slots
         /\ \A s \in DOMAIN c.slots :
              /\ r.c.slots[s].max = c.slots[s].max
              /\ Len(r.c.slots[s].equipped) = Len(c.slots[s].equipped)
              /\ \A i \in 1..Len(c.slots[s].equipped) :
                   r.c.slots[s].equipped[i] =
                      IF s = slotId /\ i \in Free(c, slotId)
                                   /\ \A j \in Free(c, slotId) : i <= j
                      THEN instanceId
                      ELSE c.slots[s].equipped[i]
         /\ r.c.inventory.items = c.inventory.items

Equipment(c, pack) ==
    [slots |-> c.slots,
     caps |-> summarizeEquipmentVars(c, pack).caps,
     bonuses |-> summarizeEquipmentVars(c, pack).bonuses]

\* e is what equip gave for c; unequip of the same item gives c's equipment
Undone(c, e, pack, instanceId) ==
    Equipment(unequip(e.c, pack, e.m, instanceId).c, pack) = Equipment(c, pack)

\* C36: for an inventory item that occupies no slot position and a slot
\* with a free position, equip of the item followed by unequip of the same
\* item restores every slot's equipped array and the caps and bonuses of
\* summarizeEquipmentVars to what they were before the equip.
C36_EquipThenUnequipRestores ==
    \A instanceId \in InstanceIds, slotId \in SlotIds :
       /\ Carried(character, instanceId)
       /\ Occupied(character, instanceId) = {}
       /\ slotId \in DOMAIN character.slots
       /\ Free(character, slotId) # {}
       => Undone(character, equip(character, Pack(pk), Here, instanceId, slotId),
                 Pack(pk), instanceId)

\* with the armor on, the shield is carried and free: putting it on changes
\* the summary, taking it off again restores it
C36_ShieldOnAndOff ==
    /\ Carried(character, "shield1")
    /\ Occupied(character, "shield1") = {}
    /\ character.slots.armor.equipped = <<"arm1">>
    /\ Free(character, "off_hand") # {}
    /\ Equipment(equip(character, Pack(pk), Here, "shield1", "off_hand").c, Pack(pk))
         # Equipment(character, Pack(pk))
    /\ Undone(character, equip(character, Pack(pk), Here, "shield1", "off_hand"),
              Pack(pk), "shield1")

====
